---- MODULE Spec2Model ----
(***************************************************************************)
(* Service discovery of turnout: the single-pass walk of a virtual         *)
(* filesystem that feeds every directory entry to every signal, the        *)
(* generation of candidate services, and their triangulation.              *)
(*                                                                         *)
(* Go strings are modelled as sequences of one-character strings, so that  *)
(* prefix tests, substring tests and concatenations are computed the way   *)
(* the program computes them.                                              *)
(***************************************************************************)
EXTENDS Integers, Sequences, FiniteSets, TLC

\* ------------------------------------------------------------------ strings

UpperCase == <<"A", "B", "C", "D", "E", "F", "G", "H", "I", "J", "K", "L", "M", "N", "O", "P", "Q", "R", "S", "T", "U", "V", "W", "X", "Y", "Z">>
LowerCase == <<"a", "b", "c", "d", "e", "f", "g", "h", "i", "j", "k", "l", "m", "n", "o", "p", "q", "r", "s", "t", "u", "v", "w", "x", "y", "z">>

ToLowerChar(c) ==
    IF \E i \in DOMAIN UpperCase : UpperCase[i] = c
    THEN LowerCase[CHOOSE i \in DOMAIN UpperCase : UpperCase[i] = c]
    ELSE c

\* strings.ToLower
ToLower(s) == [i \in 1..Len(s) |-> ToLowerChar(s[i])]

ToUpperChar(c) ==
    IF \E i \in DOMAIN LowerCase : LowerCase[i] = c
    THEN UpperCase[CHOOSE i \in DOMAIN LowerCase : LowerCase[i] = c]
    ELSE c

\* strings.ToUpper
ToUpper(s) == [i \in 1..Len(s) |-> ToUpperChar(s[i])]

\* strings.EqualFold (ASCII)
EqualFold(a, b) == ToLower(a) = ToLower(b)

\* strings.Contains
Contains(s, sub) ==
    \E i \in 0..(Len(s) - Len(sub)) : SubSeq(s, i + 1, i + Len(sub)) = sub

\* strings.HasPrefix
HasPrefix(s, p) == Len(s) >= Len(p) /\ SubSeq(s, 1, Len(p)) = p

\* strings.HasSuffix
HasSuffix(s, p) == Len(s) >= Len(p) /\ SubSeq(s, Len(s) - Len(p) + 1, Len(s)) = p

\* strings.TrimPrefix
TrimPrefix(s, p) == IF HasPrefix(s, p) THEN SubSeq(s, Len(p) + 1, Len(s)) ELSE s

\* the positions of "/" in s
SlashPositions(s) == {i \in 1..Len(s) : s[i] = "/"}

Max(S) == CHOOSE x \in S : \A y \in S : y <= x

\* strings.Split(s, "/")
RECURSIVE Split(_)
Split(s) ==
    IF SlashPositions(s) = {} THEN <<s>>
    ELSE LET i == Max(SlashPositions(s))
         IN Append(Split(SubSeq(s, 1, i - 1)), SubSeq(s, i + 1, Len(s)))

\* strings.Join(parts, "/")
RECURSIVE JoinSlash(_)
JoinSlash(parts) ==
    IF Len(parts) = 0 THEN <<>>
    ELSE IF Len(parts) = 1 THEN parts[1]
    ELSE JoinSlash(SubSeq(parts, 1, Len(parts) - 1)) \o <<"/">> \o parts[Len(parts)]

\* ------------------------------------------------------------------ paths

\* the element stack path.Clean keeps while it scans the elements of a path
RECURSIVE CleanElems(_, _)
CleanElems(parts, rooted) ==
    IF Len(parts) = 0 THEN <<>>
    ELSE LET before == CleanElems(SubSeq(parts, 1, Len(parts) - 1), rooted)
             e == parts[Len(parts)]
         IN IF e = <<>> \/ e = <<".">> THEN before
            ELSE IF e = <<".", ".">>
                 THEN IF Len(before) > 0 /\ before[Len(before)] # <<".", ".">>
                      THEN SubSeq(before, 1, Len(before) - 1)
                      ELSE IF rooted THEN before ELSE Append(before, e)
            ELSE Append(before, e)

\* path.Clean
Clean(p) ==
    LET rooted == HasPrefix(p, <<"/">>)
        body == JoinSlash(CleanElems(Split(p), rooted))
    IN IF rooted THEN <<"/">> \o body
       ELSE IF body = <<>> THEN <<".">> ELSE body

\* FileSystem.Join(a, b): path.Join drops empty elements and cleans the result
Join(a, b) ==
    IF a = <<>> /\ b = <<>> THEN <<>>
    ELSE IF a = <<>> THEN Clean(b)
    ELSE IF b = <<>> THEN Clean(a)
    ELSE Clean(a \o <<"/">> \o b)

\* FileSystem.Base: path.Base
Base(p) ==
    IF p = <<>> THEN <<".">>
    ELSE LET parts == SelectSeq(Split(p), LAMBDA e : e # <<>>)
         IN IF Len(parts) = 0 THEN <<"/">> ELSE parts[Len(parts)]

\* FileSystem.Dir: path.Dir
Dir(p) ==
    IF SlashPositions(p) = {} THEN <<".">>
    ELSE Clean(SubSeq(p, 1, Max(SlashPositions(p))))

\* ------------------------------------------------------------------ errors

\* the nil error
Nil == [kind |-> "nil", msg |-> <<>>]

\* An error value: its message, and the class of failure that produced it
\* (known from the place that created it; the program never stores it).
Error(kind, msg) == [kind |-> kind, msg |-> msg]

\* fmt.Errorf(prefix + "%w", err)
Wrap(prefix, err) == [kind |-> err.kind, msg |-> prefix \o err.msg]

\* isCriticalError
isCriticalError(err) ==
    IF err = Nil THEN FALSE
    ELSE LET errMsg == ToLower(err.msg)
         IN IF \/ Contains(errMsg, <<"4", "0", "1", " ", "u", "n", "a", "u", "t", "h", "o", "r", "i", "z", "e", "d">>)
               \/ Contains(errMsg, <<"4", "0", "3", " ", "f", "o", "r", "b", "i", "d", "d", "e", "n">>)
               \/ Contains(errMsg, <<"b", "a", "d", " ", "c", "r", "e", "d", "e", "n", "t", "i", "a", "l", "s">>)
               \/ Contains(errMsg, <<"t", "o", "k", "e", "n">>)
               \/ Contains(errMsg, <<"a", "u", "t", "h", "e", "n", "t", "i", "c", "a", "t", "i", "o", "n">>)
            THEN TRUE
            ELSE IF \/ Contains(errMsg, <<"r", "a", "t", "e", " ", "l", "i", "m", "i", "t">>)
                    \/ Contains(errMsg, <<"a", "p", "i", " ", "r", "a", "t", "e", " ", "l", "i", "m", "i", "t", " ", "e", "x", "c", "e", "e", "d", "e", "d">>)
            THEN TRUE
            ELSE IF \/ Contains(errMsg, <<"c", "o", "n", "n", "e", "c", "t", "i", "o", "n", " ", "r", "e", "f", "u", "s", "e", "d">>)
                    \/ Contains(errMsg, <<"t", "i", "m", "e", "o", "u", "t">>)
                    \/ Contains(errMsg, <<"n", "e", "t", "w", "o", "r", "k">>)
            THEN TRUE
            ELSE FALSE

\* ------------------------------------------------------------------ ignore policy

excludePatterns == <<
    <<"n", "o", "d", "e", "_", "m", "o", "d", "u", "l", "e", "s">>, <<"v", "e", "n", "d", "o", "r">>, <<"b", "o", "w", "e", "r", "_", "c", "o", "m", "p", "o", "n", "e", "n", "t", "s">>,
    <<"v", "e", "n", "v">>, <<"e", "n", "v">>,
    <<"t", "a", "r", "g", "e", "t">>, <<"d", "e", "p", "s">>, <<"_", "b", "u", "i", "l", "d">>,
    <<"d", "i", "s", "t">>, <<"b", "u", "i", "l", "d">>, <<"o", "u", "t">>, <<".", "n", "e", "x", "t">>, <<".", "n", "u", "x", "t">>, <<".", "o", "u", "t", "p", "u", "t">>,
    <<"p", "u", "b", "l", "i", "c">>, <<"s", "t", "a", "t", "i", "c">>, <<"a", "s", "s", "e", "t", "s">>, <<".", "v", "e", "r", "c", "e", "l">>, <<".", "n", "e", "t", "l", "i", "f", "y">>,
    <<"b", "i", "n">>, <<"o", "b", "j">>, <<"D", "e", "b", "u", "g">>, <<"R", "e", "l", "e", "a", "s", "e">>, <<"x", "6", "4">>, <<"x", "8", "6">>,
    <<"T", "h", "u", "m", "b", "s", ".", "d", "b">>, <<"D", "e", "s", "k", "t", "o", "p", ".", "i", "n", "i">>,
    <<"t", "m", "p">>, <<"t", "e", "m", "p">>, <<"c", "a", "c", "h", "e">>, <<"l", "o", "g", "s">>, <<"c", "o", "v", "e", "r", "a", "g", "e">>,
    <<"m", "a", "n">>, <<"e", "x", "a", "m", "p", "l", "e", "s">>, <<"t", "e", "s", "t">>, <<"t", "e", "s", "t", "s">> >>

includePatterns == << <<".", "d", "o">>, <<".", "v", "e", "r", "c", "e", "l">> >>

\* ServiceDiscovery.shouldIgnoreDirectory
shouldIgnoreDirectory(dirName) ==
    IF \E i \in DOMAIN excludePatterns : EqualFold(dirName, excludePatterns[i])
    THEN TRUE
    ELSE IF \/ HasPrefix(dirName, <<"_">>)
            \/ /\ HasPrefix(dirName, <<".">>) /\ Len(dirName) > 1
               /\ ~(\E i \in DOMAIN includePatterns : includePatterns[i] = dirName)
    THEN TRUE
    ELSE FALSE

\* ------------------------------------------------------------------ services

\* types.Network
NetworkNone == 0
NetworkPrivate == 1
NetworkPublic == 2

\* types.Runtime
RuntimeContinuous == 0
RuntimeScheduled == 1

\* types.Build
BuildFromSource == 0
BuildFromImage == 1

\* types.ConfigRef
ConfigRef(type, path) == [Type |-> type, Path |-> path]

\* the zero value of types.Service
ZeroService ==
    [Name |-> <<>>, Network |-> NetworkNone, Runtime |-> RuntimeContinuous,
     Build |-> BuildFromSource, BuildPath |-> <<>>, Image |-> <<>>, Configs |-> <<>>]

\* signalResult
signalResult(services, confidence, signal) ==
    [services |-> services, confidence |-> confidence, signal |-> signal]

\* serviceWithSignal
serviceWithSignal(service, confidence) ==
    [service |-> service, confidence |-> confidence]

\* ------------------------------------------------------------------ triangulation

\* every service of every result with its result's confidence, in the order
\* the nested loops of triangulateServices visit them
RECURSIVE allCandidates(_)
allCandidates(results) ==
    IF Len(results) = 0 THEN <<>>
    ELSE LET r == results[Len(results)]
         IN allCandidates(SubSeq(results, 1, Len(results) - 1)) \o
            [i \in 1..Len(r.services) |-> serviceWithSignal(r.services[i], r.confidence)]

\* key := service.BuildPath + ":" + service.Name
serviceKey(service) == service.BuildPath \o <<":">> \o service.Name

\* configKey := config.Type + ":" + config.Path
configKey(config) == config.Type \o <<":">> \o config.Path

\* serviceMap: key -> the candidates with a build path that have that key, in order
buildServiceMap(results) ==
    LET keyed == SelectSeq(allCandidates(results), LAMBDA sws : sws.service.BuildPath # <<>>)
        keys == {serviceKey(keyed[i].service) : i \in DOMAIN keyed}
    IN [k \in keys |-> SelectSeq(keyed, LAMBDA sws : serviceKey(sws.service) = k)]

appendConfigsNoDedup(allConfigs, configs) == allConfigs \o configs

\* the inner loop over sws.service.Configs: append the configs whose key is not in configSet
RECURSIVE appendConfigs(_, _)
appendConfigs(allConfigs, configs) ==
    IF Len(configs) = 0 THEN allConfigs
    ELSE LET before == appendConfigs(allConfigs, SubSeq(configs, 1, Len(configs) - 1))
             config == configs[Len(configs)]
             configSet == {configKey(before[i]) : i \in DOMAIN before}
         IN IF configKey(config) \notin configSet THEN Append(before, config) ELSE before

\* the loop over serviceList: the state (bestService, allConfigs, maxConfidence) after it
RECURSIVE mergeLoop(_)
mergeLoop(serviceList) ==
    IF Len(serviceList) = 0
    THEN [bestService |-> ZeroService, allConfigs |-> <<>>, maxConfidence |-> 0]
    ELSE LET before == mergeLoop(SubSeq(serviceList, 1, Len(serviceList) - 1))
             sws == serviceList[Len(serviceList)]
             allConfigs == appendConfigs(before.allConfigs, sws.service.Configs)
         IN IF sws.confidence > before.maxConfidence
            THEN [bestService |-> sws.service, allConfigs |-> allConfigs,
                  maxConfidence |-> sws.confidence]
            ELSE [before EXCEPT !.allConfigs = allConfigs]

\* the service appended to mergedServices for one key
mergeGroup(serviceList) ==
    LET m == mergeLoop(serviceList)
    IN [m.bestService EXCEPT !.Configs = m.allConfigs]

\* the orders in which a range over a Go map can visit its keys
RECURSIVE iterationOrders(_)
iterationOrders(keys) ==
    IF keys = {} THEN {<<>>}
    ELSE UNION {{<<k>> \o rest : rest \in iterationOrders(keys \ {k})} : k \in keys}

\* the services without a build path, appended last
passThrough(results) ==
    LET all == allCandidates(results)
        kept == SelectSeq(all, LAMBDA sws : sws.service.BuildPath = <<>>)
    IN [i \in 1..Len(kept) |-> kept[i].service]

\* triangulateServices: the lists it can return (one per iteration order of serviceMap)
triangulateServices(results) ==
    LET serviceMap == buildServiceMap(results)
    IN {[i \in 1..Len(order) |-> mergeGroup(serviceMap[order[i]])] \o passThrough(results) :
           order \in iterationOrders(DOMAIN serviceMap)}

\* ------------------------------------------------------------------ filesystems

\* Go maps as functions
EmptyMap == [k \in {} |-> k]
MapPut(m, k, v) == [x \in DOMAIN m \cup {k} |-> IF x = k THEN v ELSE m[x]]

\* one pair yielded by a ReadDir iterator
NoEntry == [name |-> <<>>, isDir |-> FALSE]
DirEntry(name, isDir) == [name |-> name, isDir |-> isDir]
YieldEntry(entry) == [entry |-> entry, err |-> Nil]
YieldError(err) == [entry |-> NoEntry, err |-> err]

\* a file or directory of the repository: its path below the repository root,
\* and what the parsers the signals call make of its content
File(name, isDir, content) == [name |-> name, isDir |-> isDir, content |-> content]

\* what client.Repositories.Get answers when NewGitHubFSWithPath asks for the
\* default branch: an error, or the branch
NotDetected == [err |-> TRUE, branch |-> <<>>]
DetectedBranch(branch) == [err |-> FALSE, branch |-> branch]

\* NewGitHubFSWithPath for the repository o/r: GitHubFS before its first access.
\* An empty ref is replaced by the default branch that the client, authenticated
\* with the token if there is one, detects, and by "main" when that fails.
\* closed: gfs.zipReader has been closed
NewGitHubFSWithPath(ref, token, detected) ==
    [initialized |-> FALSE, initErr |-> Nil, pathIndex |-> EmptyMap, token |-> token,
     ref |-> IF ref # <<>> THEN ref
             ELSE IF detected.err THEN <<"m", "a", "i", "n">>
             ELSE detected.branch,
     closed |-> FALSE]

\* NewGitHubFS
NewGitHubFS(ref, token, detected) == NewGitHubFSWithPath(ref, token, detected)

\* the status texts of net/http
statusTexts ==
    {<<100, <<"C", "o", "n", "t", "i", "n", "u", "e">>>>,
     <<101, <<"S", "w", "i", "t", "c", "h", "i", "n", "g", " ", "P", "r", "o", "t", "o", "c", "o", "l", "s">>>>,
     <<102, <<"P", "r", "o", "c", "e", "s", "s", "i", "n", "g">>>>,
     <<103, <<"E", "a", "r", "l", "y", " ", "H", "i", "n", "t", "s">>>>,
     <<200, <<"O", "K">>>>,
     <<201, <<"C", "r", "e", "a", "t", "e", "d">>>>,
     <<202, <<"A", "c", "c", "e", "p", "t", "e", "d">>>>,
     <<203, <<"N", "o", "n", "-", "A", "u", "t", "h", "o", "r", "i", "t", "a", "t", "i", "v", "e", " ", "I", "n", "f", "o", "r", "m", "a", "t", "i", "o", "n">>>>,
     <<204, <<"N", "o", " ", "C", "o", "n", "t", "e", "n", "t">>>>,
     <<205, <<"R", "e", "s", "e", "t", " ", "C", "o", "n", "t", "e", "n", "t">>>>,
     <<206, <<"P", "a", "r", "t", "i", "a", "l", " ", "C", "o", "n", "t", "e", "n", "t">>>>,
     <<207, <<"M", "u", "l", "t", "i", "-", "S", "t", "a", "t", "u", "s">>>>,
     <<208, <<"A", "l", "r", "e", "a", "d", "y", " ", "R", "e", "p", "o", "r", "t", "e", "d">>>>,
     <<226, <<"I", "M", " ", "U", "s", "e", "d">>>>,
     <<300, <<"M", "u", "l", "t", "i", "p", "l", "e", " ", "C", "h", "o", "i", "c", "e", "s">>>>,
     <<301, <<"M", "o", "v", "e", "d", " ", "P", "e", "r", "m", "a", "n", "e", "n", "t", "l", "y">>>>,
     <<302, <<"F", "o", "u", "n", "d">>>>,
     <<303, <<"S", "e", "e", " ", "O", "t", "h", "e", "r">>>>,
     <<304, <<"N", "o", "t", " ", "M", "o", "d", "i", "f", "i", "e", "d">>>>,
     <<305, <<"U", "s", "e", " ", "P", "r", "o", "x", "y">>>>,
     <<307, <<"T", "e", "m", "p", "o", "r", "a", "r", "y", " ", "R", "e", "d", "i", "r", "e", "c", "t">>>>,
     <<308, <<"P", "e", "r", "m", "a", "n", "e", "n", "t", " ", "R", "e", "d", "i", "r", "e", "c", "t">>>>,
     <<400, <<"B", "a", "d", " ", "R", "e", "q", "u", "e", "s", "t">>>>,
     <<401, <<"U", "n", "a", "u", "t", "h", "o", "r", "i", "z", "e", "d">>>>,
     <<402, <<"P", "a", "y", "m", "e", "n", "t", " ", "R", "e", "q", "u", "i", "r", "e", "d">>>>,
     <<403, <<"F", "o", "r", "b", "i", "d", "d", "e", "n">>>>,
     <<404, <<"N", "o", "t", " ", "F", "o", "u", "n", "d">>>>,
     <<405, <<"M", "e", "t", "h", "o", "d", " ", "N", "o", "t", " ", "A", "l", "l", "o", "w", "e", "d">>>>,
     <<406, <<"N", "o", "t", " ", "A", "c", "c", "e", "p", "t", "a", "b", "l", "e">>>>,
     <<407, <<"P", "r", "o", "x", "y", " ", "A", "u", "t", "h", "e", "n", "t", "i", "c", "a", "t", "i", "o", "n", " ", "R", "e", "q", "u", "i", "r", "e", "d">>>>,
     <<408, <<"R", "e", "q", "u", "e", "s", "t", " ", "T", "i", "m", "e", "o", "u", "t">>>>,
     <<409, <<"C", "o", "n", "f", "l", "i", "c", "t">>>>,
     <<410, <<"G", "o", "n", "e">>>>,
     <<411, <<"L", "e", "n", "g", "t", "h", " ", "R", "e", "q", "u", "i", "r", "e", "d">>>>,
     <<412, <<"P", "r", "e", "c", "o", "n", "d", "i", "t", "i", "o", "n", " ", "F", "a", "i", "l", "e", "d">>>>,
     <<413, <<"R", "e", "q", "u", "e", "s", "t", " ", "E", "n", "t", "i", "t", "y", " ", "T", "o", "o", " ", "L", "a", "r", "g", "e">>>>,
     <<414, <<"R", "e", "q", "u", "e", "s", "t", " ", "U", "R", "I", " ", "T", "o", "o", " ", "L", "o", "n", "g">>>>,
     <<415, <<"U", "n", "s", "u", "p", "p", "o", "r", "t", "e", "d", " ", "M", "e", "d", "i", "a", " ", "T", "y", "p", "e">>>>,
     <<416, <<"R", "e", "q", "u", "e", "s", "t", "e", "d", " ", "R", "a", "n", "g", "e", " ", "N", "o", "t", " ", "S", "a", "t", "i", "s", "f", "i", "a", "b", "l", "e">>>>,
     <<417, <<"E", "x", "p", "e", "c", "t", "a", "t", "i", "o", "n", " ", "F", "a", "i", "l", "e", "d">>>>,
     <<418, <<"I", "'", "m", " ", "a", " ", "t", "e", "a", "p", "o", "t">>>>,
     <<421, <<"M", "i", "s", "d", "i", "r", "e", "c", "t", "e", "d", " ", "R", "e", "q", "u", "e", "s", "t">>>>,
     <<422, <<"U", "n", "p", "r", "o", "c", "e", "s", "s", "a", "b", "l", "e", " ", "E", "n", "t", "i", "t", "y">>>>,
     <<423, <<"L", "o", "c", "k", "e", "d">>>>,
     <<424, <<"F", "a", "i", "l", "e", "d", " ", "D", "e", "p", "e", "n", "d", "e", "n", "c", "y">>>>,
     <<425, <<"T", "o", "o", " ", "E", "a", "r", "l", "y">>>>,
     <<426, <<"U", "p", "g", "r", "a", "d", "e", " ", "R", "e", "q", "u", "i", "r", "e", "d">>>>,
     <<428, <<"P", "r", "e", "c", "o", "n", "d", "i", "t", "i", "o", "n", " ", "R", "e", "q", "u", "i", "r", "e", "d">>>>,
     <<429, <<"T", "o", "o", " ", "M", "a", "n", "y", " ", "R", "e", "q", "u", "e", "s", "t", "s">>>>,
     <<431, <<"R", "e", "q", "u", "e", "s", "t", " ", "H", "e", "a", "d", "e", "r", " ", "F", "i", "e", "l", "d", "s", " ", "T", "o", "o", " ", "L", "a", "r", "g", "e">>>>,
     <<451, <<"U", "n", "a", "v", "a", "i", "l", "a", "b", "l", "e", " ", "F", "o", "r", " ", "L", "e", "g", "a", "l", " ", "R", "e", "a", "s", "o", "n", "s">>>>,
     <<500, <<"I", "n", "t", "e", "r", "n", "a", "l", " ", "S", "e", "r", "v", "e", "r", " ", "E", "r", "r", "o", "r">>>>,
     <<501, <<"N", "o", "t", " ", "I", "m", "p", "l", "e", "m", "e", "n", "t", "e", "d">>>>,
     <<502, <<"B", "a", "d", " ", "G", "a", "t", "e", "w", "a", "y">>>>,
     <<503, <<"S", "e", "r", "v", "i", "c", "e", " ", "U", "n", "a", "v", "a", "i", "l", "a", "b", "l", "e">>>>,
     <<504, <<"G", "a", "t", "e", "w", "a", "y", " ", "T", "i", "m", "e", "o", "u", "t">>>>,
     <<505, <<"H", "T", "T", "P", " ", "V", "e", "r", "s", "i", "o", "n", " ", "N", "o", "t", " ", "S", "u", "p", "p", "o", "r", "t", "e", "d">>>>,
     <<506, <<"V", "a", "r", "i", "a", "n", "t", " ", "A", "l", "s", "o", " ", "N", "e", "g", "o", "t", "i", "a", "t", "e", "s">>>>,
     <<507, <<"I", "n", "s", "u", "f", "f", "i", "c", "i", "e", "n", "t", " ", "S", "t", "o", "r", "a", "g", "e">>>>,
     <<508, <<"L", "o", "o", "p", " ", "D", "e", "t", "e", "c", "t", "e", "d">>>>,
     <<510, <<"N", "o", "t", " ", "E", "x", "t", "e", "n", "d", "e", "d">>>>,
     <<511, <<"N", "e", "t", "w", "o", "r", "k", " ", "A", "u", "t", "h", "e", "n", "t", "i", "c", "a", "t", "i", "o", "n", " ", "R", "e", "q", "u", "i", "r", "e", "d">>>>}

\* http.StatusText: the text of a known code, and the empty string for any other
textOf(found) == IF found = {} THEN <<>> ELSE (CHOOSE t \in found : TRUE)[2]

StatusText(code) == textOf({t \in statusTexts : t[1] = code})

\* the class of failure an HTTP status of the archive download stands for
StatusKind(code) ==
    IF code = 401 THEN "AuthFailed"
    ELSE IF code = 403 THEN "Denied"
    ELSE IF code = 429 THEN "RateLimited"
    ELSE IF code = 404 THEN "NotFound"
    ELSE "Http"

\* the decimal digits of a three-digit status code
StatusDigits(code) ==
    LET digit == <<"0", "1", "2", "3", "4", "5", "6", "7", "8", "9">>
    IN <<digit[(code \div 100) + 1], digit[((code \div 10) % 10) + 1], digit[(code % 10) + 1]>>

\* the URL downloadZipball requests, which is the safeURL of its error as well: the
\* API endpoint, or the codeload endpoint when no token is set
zipballURL(gfs) ==
    IF gfs.token = <<>> THEN <<"h", "t", "t", "p", "s", ":", "/", "/", "c", "o", "d", "e", "l", "o", "a", "d", ".", "g", "i", "t", "h", "u", "b", ".", "c", "o", "m", "/", "o", "/", "r", "/", "z", "i", "p", "/">> \o gfs.ref
    ELSE <<"h", "t", "t", "p", "s", ":", "/", "/", "a", "p", "i", ".", "g", "i", "t", "h", "u", "b", ".", "c", "o", "m", "/", "r", "e", "p", "o", "s", "/", "o", "/", "r", "/", "z", "i", "p", "b", "a", "l", "l", "/">> \o gfs.ref

\* where the API endpoint sends the client for the archive (the Location of its
\* answer); the codeload endpoint answers itself
redirectURL(gfs) == <<"h", "t", "t", "p", "s", ":", "/", "/", "c", "o", "d", "e", "l", "o", "a", "d", ".", "g", "i", "t", "h", "u", "b", ".", "c", "o", "m", "/", "o", "/", "r", "/", "l", "e", "g", "a", "c", "y", ".", "z", "i", "p", "/", "r", "e", "f", "s", "/", "h", "e", "a", "d", "s", "/">> \o gfs.ref

\* the error of http.DefaultClient.Do when a request gets no answer: a *url.Error
\* that names the method and the URL of the request that failed, the last one the
\* client made
transportError(url) ==
    Error("Network",
          <<"G", "e", "t", " ">> \o <<"\"">> \o url \o <<"\"">> \o
          <<":", " ", "d", "i", "a", "l", " ", "t", "c", "p", " ", "1", "4", "0", ".", "8", "2", ".", "1", "2", "1", ".", "9", ":", "4", "4", "3", ":", " ", "c", "o", "n", "n", "e", "c", "t", ":", " ", "c", "o", "n", "n", "e", "c", "t", "i", "o", "n", " ", "r", "e", "f", "u", "s", "e", "d">>)

\* the error of io.Copy when the body ends before its announced length
copyError == Error("Network", <<"u", "n", "e", "x", "p", "e", "c", "t", "e", "d", " ", "E", "O", "F">>)

\* the error of a status other than 200
statusError(code, url) ==
    Error(StatusKind(code),
          <<"f", "a", "i", "l", "e", "d", " ", "t", "o", " ", "d", "o", "w", "n", "l", "o", "a", "d", " ", "a", "r", "c", "h", "i", "v", "e", ":", " ", "H", "T", "T", "P", " ">> \o StatusDigits(code) \o <<" ">> \o
          StatusText(code) \o <<" ", "f", "o", "r", " ">> \o url)

\* GitHubFS.downloadZipball: the error of a download that goes as `download` says:
\* the request gets no answer, the request the client is redirected to gets none,
\* or the download is answered with download.http and the body can be copied or
\* not. http.NewRequestWithContext gets the background context and a URL made of
\* the owner and repo of the model and a ref that parses.
downloadZipball(gfs, download) ==
    IF download.fault = "transport" THEN transportError(zipballURL(gfs))
    ELSE IF download.fault = "redirect" /\ gfs.token # <<>>
    THEN transportError(redirectURL(gfs))
    ELSE IF download.http # 200 THEN statusError(download.http, zipballURL(gfs))
    ELSE IF download.fault = "copy" THEN copyError
    ELSE Nil

\* GitHubFS.buildPathIndex: parent directory -> child names, in archive order
RECURSIVE buildPathIndex(_)
buildPathIndex(files) ==
    IF Len(files) = 0 THEN EmptyMap
    ELSE LET before == buildPathIndex(SubSeq(files, 1, Len(files) - 1))
             cleanPath == files[Len(files)].name
             dir == Dir(cleanPath)
             parentDir == IF dir = <<".">> THEN <<>> ELSE dir
             childName == Base(cleanPath)
             children == IF parentDir \in DOMAIN before THEN before[parentDir] ELSE <<>>
         IN IF cleanPath = <<>> THEN before
            ELSE IF \E i \in DOMAIN children : children[i] = childName THEN before
            ELSE MapPut(before, parentDir, Append(children, childName))

\* the temporary file of the download; the end of its name is random
tempFileName == <<"/", "t", "m", "p", "/", "t", "u", "r", "n", "o", "u", "t", "-", "g", "i", "t", "h", "u", "b", "-", "o", "-", "r", "-", "1", ".", "z", "i", "p">>

\* downloadAndIndex after downloadZipball has returned err: the error is wrapped,
\* or zip.OpenReader opens what was downloaded
openDownloaded(download, err) ==
    IF err # Nil THEN Wrap(<<"f", "a", "i", "l", "e", "d", " ", "t", "o", " ", "d", "o", "w", "n", "l", "o", "a", "d", " ", "r", "e", "p", "o", "s", "i", "t", "o", "r", "y", ":", " ">>, err)
    ELSE IF download.fault = "zip"
    THEN Error("Malformed", <<"f", "a", "i", "l", "e", "d", " ", "t", "o", " ", "o", "p", "e", "n", " ", "z", "i", "p", ":", " ", "z", "i", "p", ":", " ", "n", "o", "t", " ", "a", " ", "v", "a", "l", "i", "d", " ", "z", "i", "p", " ", "f", "i", "l", "e">>)
    ELSE Nil

\* GitHubFS.downloadAndIndex up to zip.OpenReader: the error it returns, nil when
\* gfs.zipReader has been set
downloadAndIndex(gfs, download) ==
    IF download.fault = "createTemp"
    THEN Error("Denied",
               <<"f", "a", "i", "l", "e", "d", " ", "t", "o", " ", "c", "r", "e", "a", "t", "e", " ", "t", "e", "m", "p", " ", "f", "i", "l", "e", ":", " ", "o", "p", "e", "n", " ">> \o tempFileName \o
               <<":", " ", "p", "e", "r", "m", "i", "s", "s", "i", "o", "n", " ", "d", "e", "n", "i", "e", "d">>)
    ELSE openDownloaded(download, downloadZipball(gfs, download))

initializedWith(gfs, repo, err) ==
    IF err # Nil THEN [gfs EXCEPT !.initialized = TRUE, !.initErr = err]
    ELSE [gfs EXCEPT !.initialized = TRUE, !.pathIndex = buildPathIndex(repo.files)]

\* GitHubFS.ensureInitialized with downloadAndIndex: runs once, on the first access
ensureInitialized(gfs, repo) ==
    IF gfs.initialized THEN gfs
    ELSE initializedWith(gfs, repo, downloadAndIndex(gfs, repo))

\* GitHubFS.validatePath
validatePath(path) ==
    LET p == Clean(TrimPrefix(path, <<"/">>))
    IN IF Contains(p, <<".", ".">>)
       THEN Error("InvalidInput", <<"p", "a", "t", "h", " ", "t", "r", "a", "v", "e", "r", "s", "a", "l", " ", "d", "e", "t", "e", "c", "t", "e", "d", ":", " ">> \o p)
       ELSE IF HasPrefix(p, <<"/">>)
       THEN Error("InvalidInput", <<"a", "b", "s", "o", "l", "u", "t", "e", " ", "p", "a", "t", "h", " ", "n", "o", "t", " ", "a", "l", "l", "o", "w", "e", "d", ":", " ">> \o p)
       ELSE Nil

\* GitHubFS.resolvePath
resolvePath(basePath, path) ==
    LET p == TrimPrefix(path, <<"/">>)
    IN IF basePath # <<>>
       THEN IF p = <<>> \/ p = <<".">> THEN basePath ELSE basePath \o <<"/">> \o p
       ELSE p

\* GitHubFS.ReadDir: the pairs the iterator yields, on an initialized GitHubFS
GitHubFS_ReadDir(gfs, repo, dirName) ==
    IF gfs.initErr # Nil THEN <<YieldError(gfs.initErr)>>
    ELSE IF validatePath(dirName) # Nil THEN <<YieldError(validatePath(dirName))>>
    ELSE LET resolved == resolvePath(repo.basePath, dirName)
             name == IF resolved = <<".">> THEN <<>> ELSE resolved
         IN IF name \notin DOMAIN gfs.pathIndex
            THEN <<YieldError(Error("NotFound", <<"d", "i", "r", "e", "c", "t", "o", "r", "y", " ", "n", "o", "t", " ", "f", "o", "u", "n", "d", ":", " ">> \o name))>>
            ELSE LET children == gfs.pathIndex[name]
                     childPath(c) == IF name # <<>> THEN name \o <<"/">> \o c ELSE c
                 IN [i \in 1..Len(children) |->
                        YieldEntry(DirEntry(children[i],
                                            childPath(children[i]) \in DOMAIN gfs.pathIndex))]

\* GitHubFS.findRepoPrefix: the top directory of the archive, which GitHub names
\* after owner, repository and commit
repoPrefix == <<"o", "-", "r", "-", "m", "/">>

\* zip.Reader.Open: the name is a directory of the archive, listed or implied by
\* an entry below it
archiveIsDir(files, name) ==
    \E i \in DOMAIN files :
        \/ files[i].name = name /\ files[i].isDir
        \/ name # <<>> /\ HasPrefix(files[i].name, name \o <<"/">>)

\* GitHubFS.ReadFile: content and error. Open gives a handle for a directory too,
\* which io.ReadAll cannot read; on a closed archive no file can be opened
GitHubFS_ReadFile(gfs, repo, fileName) ==
    IF gfs.initErr # Nil THEN [content |-> [kind |-> "none"], err |-> gfs.initErr]
    ELSE IF validatePath(fileName) # Nil
    THEN [content |-> [kind |-> "none"], err |-> validatePath(fileName)]
    ELSE LET name == resolvePath(repo.basePath, fileName)
             found == {i \in DOMAIN repo.files :
                          repo.files[i].name = name /\ ~repo.files[i].isDir}
         IN IF found # {} /\ ~gfs.closed
            THEN [content |-> repo.files[CHOOSE i \in found : TRUE].content, err |-> Nil]
            ELSE IF found = {} /\ archiveIsDir(repo.files, name)
            THEN [content |-> [kind |-> "empty"],
                  err |-> Error("IsDirectory",
                                <<"r", "e", "a", "d", " ">> \o repoPrefix \o name \o <<":", " ", "i", "s", " ", "a", " ", "d", "i", "r", "e", "c", "t", "o", "r", "y">>)]
            ELSE [content |-> [kind |-> "none"],
                  err |-> Error("NotFound", <<"f", "i", "l", "e", " ", "n", "o", "t", " ", "f", "o", "u", "n", "d", ":", " ">> \o name)]

\* GitHubFS.Cleanup, given whether it finds gfs.zipReader set: the archive is
\* closed, and closing it a second time is an error
closeZipReader(gfs, isSet) ==
    IF ~isSet THEN [gfs |-> gfs, err |-> Nil]
    ELSE [gfs |-> [gfs EXCEPT !.closed = TRUE],
          err |-> IF gfs.closed
                  THEN Error("Closed", <<"c", "l", "o", "s", "e", " ">> \o tempFileName \o <<":", " ", "f", "i", "l", "e", " ", "a", "l", "r", "e", "a", "d", "y", " ", "c", "l", "o", "s", "e", "d">>)
                  ELSE Nil]

\* GitHubFS.Cleanup when no initialization is under way: gfs.zipReader is set by a
\* download that succeeded
GitHubFS_Cleanup(gfs) == closeZipReader(gfs, gfs.initialized /\ gfs.initErr = Nil)

\* fs.SkipDir
SkipDir == Error("SkipDir", <<"s", "k", "i", "p", " ", "t", "h", "i", "s", " ", "d", "i", "r", "e", "c", "t", "o", "r", "y">>)

\* one call of the WalkFunc
WalkFuncCall(path, err) == [path |-> path, err |-> err]

\* a WalkFunc that answers SkipDir for the paths in skip, and otherwise the error
\* it is handed
WalkFunc(skip, path, err) == IF path \in skip THEN SkipDir ELSE err

\* depth cap of GitHubFS.Walk
walkMaxDepth == 10

\* GitHubFS.walkRecursive: the calls of fn in order, and the error returned
RECURSIVE walkRecursive(_, _, _, _, _, _)
RECURSIVE walkRecursiveLoop(_, _, _, _, _, _, _)
walkRecursive(gfs, repo, dir, isDir, skip, depth) ==
    IF depth > walkMaxDepth THEN [calls |-> <<>>, err |-> Nil]
    ELSE LET first == WalkFunc(skip, dir, Nil)
         IN IF first # Nil
            THEN [calls |-> <<WalkFuncCall(dir, Nil)>>,
                  err |-> IF first = SkipDir /\ isDir THEN Nil ELSE first]
            ELSE IF ~isDir THEN [calls |-> <<WalkFuncCall(dir, Nil)>>, err |-> Nil]
            ELSE walkRecursiveLoop(gfs, repo, dir, skip, depth,
                                   GitHubFS_ReadDir(gfs, repo, dir),
                                   <<WalkFuncCall(dir, Nil)>>)

\* the loop of walkRecursive over the pairs ReadDir(dir) still has to yield
walkRecursiveLoop(gfs, repo, dir, skip, depth, yields, calls) ==
    IF yields = <<>> THEN [calls |-> calls, err |-> Nil]
    ELSE LET y == Head(yields)
             entryPath == Join(dir, y.entry.name)
             answer == WalkFunc(skip, entryPath, Nil)
             visited == Append(calls, WalkFuncCall(entryPath, Nil))
         IN IF y.err # Nil
            THEN [calls |-> Append(calls, WalkFuncCall(dir, y.err)),
                  err |-> WalkFunc(skip, dir, y.err)]
            ELSE IF answer # Nil
            THEN IF answer = SkipDir /\ y.entry.isDir
                 THEN walkRecursiveLoop(gfs, repo, dir, skip, depth, Tail(yields), visited)
                 ELSE [calls |-> visited, err |-> answer]
            ELSE IF y.entry.isDir
            THEN LET below == walkRecursive(gfs, repo, entryPath, TRUE, skip, depth + 1)
                 IN IF below.err # Nil
                    THEN [calls |-> visited \o below.calls, err |-> below.err]
                    ELSE walkRecursiveLoop(gfs, repo, dir, skip, depth, Tail(yields),
                                           visited \o below.calls)
            ELSE walkRecursiveLoop(gfs, repo, dir, skip, depth, Tail(yields), visited)

\* GitHubFS.Walk, on an initialized GitHubFS
GitHubFS_Walk(gfs, repo, root, skip) ==
    IF gfs.initErr # Nil THEN [calls |-> <<>>, err |-> gfs.initErr]
    ELSE walkRecursive(gfs, repo, root, TRUE, skip, 0)

\* the printable characters in byte order (all but the grave accent)
asciiOrder ==
    <<" ", "!">> \o <<"\"">> \o <<"#", "$", "%", "&", "'", "(", ")", "*", "+", ",", "-", ".", "/", "0", "1", "2", "3", "4", "5", "6", "7", "8", "9", ":", ";", "<", "=", ">", "?", "@", "A", "B", "C", "D", "E", "F", "G", "H", "I", "J", "K", "L", "M", "N", "O", "P", "Q", "R", "S", "T", "U", "V", "W", "X", "Y", "Z", "[">> \o
    <<"\\">> \o <<"]", "^", "_", "a", "b", "c", "d", "e", "f", "g", "h", "i", "j", "k", "l", "m", "n", "o", "p", "q", "r", "s", "t", "u", "v", "w", "x", "y", "z", "{", "|", "}", "~">>

\* a < b for two Go strings
RECURSIVE StringLess(_, _)
StringLess(a, b) ==
    IF Len(b) = 0 THEN FALSE
    ELSE IF Len(a) = 0 THEN TRUE
    ELSE IF a[1] = b[1] THEN StringLess(Tail(a), Tail(b))
    ELSE (CHOOSE i \in DOMAIN asciiOrder : asciiOrder[i] = a[1])
            < (CHOOSE i \in DOMAIN asciiOrder : asciiOrder[i] = b[1])

\* os.ReadDir: the entries sorted by filename
RECURSIVE SortByName(_)
SortByName(files) ==
    IF Len(files) = 0 THEN <<>>
    ELSE LET least == CHOOSE i \in DOMAIN files :
                         \A j \in DOMAIN files :
                            ~StringLess(Base(files[j].name), Base(files[i].name))
         IN <<files[least]>> \o
            SortByName([i \in 1..(Len(files) - 1) |->
                          IF i < least THEN files[i] ELSE files[i + 1]])

\* the working directory of the process on the local disk
processDir == <<"/", "w", "/", "d">>

\* the directories from the root of the disk down to p
RECURSIVE ancestors(_)
ancestors(p) ==
    IF p = <<"/">> THEN <<>> ELSE ancestors(Dir(p)) \o <<File(p, TRUE, [kind |-> "other"])>>

\* the local disk: the files of the tree, which lie in the working directory, under
\* their absolute names, and the directories that lead to the working directory
localDisk(files) ==
    ancestors(processDir) \o
    [i \in DOMAIN files |-> [files[i] EXCEPT !.name = processDir \o <<"/">> \o files[i].name]]

\* the node is a directory of the disk
localIsDir(disk, node) ==
    \/ node = <<"/">>
    \/ \E i \in DOMAIN disk : disk[i].name = node /\ disk[i].isDir

\* open(2) resolving a path as it is written, one element after the other: the node
\* reached, or the errno of the first element that cannot be followed. An empty
\* element (of a leading, double or trailing slash) and "." stay where they are,
\* ".." goes to the parent, which for the root is the root; every element needs a
\* directory to start from.
RECURSIVE resolveLocal(_, _, _)
resolveLocal(disk, node, elems) ==
    IF Len(elems) = 0 THEN [errno |-> "none", node |-> node]
    ELSE IF ~localIsDir(disk, node) THEN [errno |-> "ENOTDIR", node |-> node]
    ELSE IF Head(elems) \in {<<>>, <<".">>} THEN resolveLocal(disk, node, Tail(elems))
    ELSE IF Head(elems) = <<".", ".">> THEN resolveLocal(disk, Dir(node), Tail(elems))
    ELSE IF \A i \in DOMAIN disk : disk[i].name # Join(node, Head(elems))
    THEN [errno |-> "ENOENT", node |-> node]
    ELSE resolveLocal(disk, Join(node, Head(elems)), Tail(elems))

\* the error of opening a path of the local disk for reading (nil when it can be
\* opened): an element of the path does not exist or is a regular file that the
\* path goes on from, or the node may not be read. A denied directory lacks the read
\* permission and keeps the search permission: what lies in it can be opened.
openError(denied, path, resolved) ==
    IF resolved.errno = "ENOTDIR"
    THEN Error("NotDirectory", <<"o", "p", "e", "n", " ">> \o path \o <<":", " ", "n", "o", "t", " ", "a", " ", "d", "i", "r", "e", "c", "t", "o", "r", "y">>)
    ELSE IF resolved.errno = "ENOENT"
    THEN Error("NotFound", <<"o", "p", "e", "n", " ">> \o path \o <<":", " ", "n", "o", " ", "s", "u", "c", "h", " ", "f", "i", "l", "e", " ", "o", "r", " ", "d", "i", "r", "e", "c", "t", "o", "r", "y">>)
    ELSE IF \E d \in denied : resolved.node = processDir \o <<"/">> \o d
    THEN Error("Denied", <<"o", "p", "e", "n", " ">> \o path \o <<":", " ", "p", "e", "r", "m", "i", "s", "s", "i", "o", "n", " ", "d", "e", "n", "i", "e", "d">>)
    ELSE Nil

\* the path as open(2) resolves it: from the root when it begins with a slash, from
\* the working directory otherwise; the empty path leads nowhere
resolveOnDisk(disk, path) ==
    IF Len(path) = 0 THEN [errno |-> "ENOENT", node |-> processDir]
    ELSE resolveLocal(disk, IF HasPrefix(path, <<"/">>) THEN <<"/">> ELSE processDir, Split(path))

resolvePathLocal(files, path) == resolveOnDisk(localDisk(files), path)

opened(denied, path, resolved) ==
    [node |-> resolved.node, err |-> openError(denied, path, resolved)]

\* opening a path of the tree: the node the path leads to and the error of opening it
openLocal(repo, path) == opened(repo.denied, path, resolvePathLocal(repo.files, path))

yieldEntries(children) ==
    [i \in 1..Len(children) |->
        YieldEntry(DirEntry(Base(children[i].name), children[i].isDir))]

readDirOpened(disk, dirName, open) ==
    IF open.err # Nil /\ open.err.kind # "Denied" THEN <<YieldError(open.err)>>
    ELSE IF ~localIsDir(disk, open.node)
    THEN <<YieldError(Error("NotDirectory", <<"o", "p", "e", "n", " ">> \o dirName \o <<":", " ", "n", "o", "t", " ", "a", " ", "d", "i", "r", "e", "c", "t", "o", "r", "y">>))>>
    ELSE IF open.err # Nil THEN <<YieldError(open.err)>>
    ELSE yieldEntries(SortByName(SelectSeq(disk, LAMBDA f : Dir(f.name) = open.node)))

\* LocalFS.ReadDir (os.ReadDir): the entries of the directory sorted by name, or the
\* error of opening it as a directory
LocalFS_ReadDir(repo, dirName) ==
    readDirOpened(localDisk(repo.files), dirName, openLocal(repo, dirName))

readFileOpened(disk, fileName, open) ==
    IF open.err # Nil THEN [content |-> [kind |-> "none"], err |-> open.err]
    ELSE IF localIsDir(disk, open.node)
    THEN [content |-> [kind |-> "empty"],
          err |-> Error("IsDirectory", <<"r", "e", "a", "d", " ">> \o fileName \o <<":", " ", "i", "s", " ", "a", " ", "d", "i", "r", "e", "c", "t", "o", "r", "y">>)]
    ELSE LET found == {i \in DOMAIN disk : disk[i].name = open.node}
         IN [content |-> disk[CHOOSE i \in found : TRUE].content, err |-> Nil]

\* LocalFS.ReadFile (os.ReadFile): a directory can be opened and not read
LocalFS_ReadFile(repo, fileName) ==
    readFileOpened(localDisk(repo.files), fileName, openLocal(repo, fileName))

\* FileSystem.ReadDir of the filesystem the discovery was built with
ReadDir(gfs, repo, dirName) ==
    IF repo.backend = "github" THEN GitHubFS_ReadDir(gfs, repo, dirName)
    ELSE LocalFS_ReadDir(repo, dirName)

\* FileSystem.ReadFile
ReadFile(gfs, repo, fileName) ==
    IF repo.backend = "github" THEN GitHubFS_ReadFile(gfs, repo, fileName)
    ELSE LocalFS_ReadFile(repo, fileName)

\* ------------------------------------------------------------------ signals

\* ServiceSignal.Confidence
Confidence(signal) ==
    IF signal = "compose" THEN 80
    ELSE IF signal = "dockerfile" THEN 50
    ELSE 95

\* NewServiceDiscovery(filesystem, compose, dockerfile, helm): the signals in
\* the order DefaultSignals has them, and the fields of every signal after
\* construction and after Reset
NewSignals ==
    [order |-> <<"compose", "dockerfile", "helm">>,
     compose |-> [composeFiles |-> <<>>, composeDirs |-> EmptyMap],
     dockerfile |-> [dockerfiles |-> <<>>, dockerfileDirs |-> EmptyMap],
     helm |-> [configPaths |-> <<>>, configDirs |-> EmptyMap],
     railway |-> [configPaths |-> <<>>, configDirs |-> EmptyMap],
     digitalocean |-> [configPaths |-> <<>>, configDirs |-> EmptyMap],
     netlify |-> [currentRootPath |-> <<>>, configPaths |-> <<>>]]

\* NewServiceDiscovery(filesystem, railway, digitalocean, netlify)
PlatformSignals == [NewSignals EXCEPT !.order = <<"railway", "digitalocean", "netlify">>]

\* ServiceSignal.Reset
Reset(state, signal) == [state EXCEPT ![signal] = NewSignals[signal]]

composeFiles == <<
    <<"d", "o", "c", "k", "e", "r", "-", "c", "o", "m", "p", "o", "s", "e", ".", "y", "m", "l">>, <<"d", "o", "c", "k", "e", "r", "-", "c", "o", "m", "p", "o", "s", "e", ".", "y", "a", "m", "l">>, <<"c", "o", "m", "p", "o", "s", "e", ".", "y", "m", "l">>, <<"c", "o", "m", "p", "o", "s", "e", ".", "y", "a", "m", "l">>,
    <<"d", "o", "c", "k", "e", "r", "-", "c", "o", "m", "p", "o", "s", "e", ".", "p", "r", "o", "d", ".", "y", "m", "l">>, <<"d", "o", "c", "k", "e", "r", "-", "c", "o", "m", "p", "o", "s", "e", ".", "p", "r", "o", "d", ".", "y", "a", "m", "l">>,
    <<"d", "o", "c", "k", "e", "r", "-", "c", "o", "m", "p", "o", "s", "e", ".", "p", "r", "o", "d", "u", "c", "t", "i", "o", "n", ".", "y", "m", "l">>, <<"d", "o", "c", "k", "e", "r", "-", "c", "o", "m", "p", "o", "s", "e", ".", "p", "r", "o", "d", "u", "c", "t", "i", "o", "n", ".", "y", "a", "m", "l">>,
    <<"c", "o", "m", "p", "o", "s", "e", ".", "p", "r", "o", "d", ".", "y", "m", "l">>, <<"c", "o", "m", "p", "o", "s", "e", ".", "p", "r", "o", "d", ".", "y", "a", "m", "l">>,
    <<"c", "o", "m", "p", "o", "s", "e", ".", "p", "r", "o", "d", "u", "c", "t", "i", "o", "n", ".", "y", "m", "l">>, <<"c", "o", "m", "p", "o", "s", "e", ".", "p", "r", "o", "d", "u", "c", "t", "i", "o", "n", ".", "y", "a", "m", "l">> >>

\* DockerComposeSignal.ObserveEntry
DockerComposeSignal_ObserveEntry(d, rootPath, entry) ==
    IF ~entry.isDir /\ \E i \in DOMAIN composeFiles : EqualFold(entry.name, composeFiles[i])
    THEN LET composePath == Join(rootPath, entry.name)
         IN [composeFiles |-> Append(d.composeFiles, composePath),
             composeDirs |-> MapPut(d.composeDirs, composePath, rootPath)]
    ELSE d

\* DockerfileSignal.ObserveEntry
DockerfileSignal_ObserveEntry(d, rootPath, entry) ==
    IF entry.isDir THEN d
    ELSE LET name == entry.name
             dockerfilePath == Join(rootPath, name)
             d1 == IF EqualFold(name, <<"D", "o", "c", "k", "e", "r", "f", "i", "l", "e">>)
                   THEN [dockerfiles |-> Append(d.dockerfiles, dockerfilePath),
                         dockerfileDirs |-> MapPut(d.dockerfileDirs, dockerfilePath, rootPath)]
                   ELSE d
         IN IF \/ HasPrefix(ToLower(name), <<"d", "o", "c", "k", "e", "r", "f", "i", "l", "e", ".">>)
               \/ HasSuffix(ToLower(name), <<".", "d", "o", "c", "k", "e", "r", "f", "i", "l", "e">>)
            THEN [dockerfiles |-> Append(d1.dockerfiles, dockerfilePath),
                  dockerfileDirs |-> MapPut(d1.dockerfileDirs, dockerfilePath, rootPath)]
            ELSE d1

\* HelmSignal.ObserveEntry
HelmSignal_ObserveEntry(h, rootPath, entry) ==
    IF ~entry.isDir /\ EqualFold(entry.name, <<"C", "h", "a", "r", "t", ".", "y", "a", "m", "l">>)
    THEN LET configPath == Join(rootPath, entry.name)
         IN [configPaths |-> Append(h.configPaths, configPath),
             configDirs |-> MapPut(h.configDirs, configPath, rootPath)]
    ELSE h

\* RailwaySignal.ObserveEntry
RailwaySignal_ObserveEntry(r, rootPath, entry) ==
    IF entry.isDir THEN r
    ELSE IF \/ EqualFold(entry.name, <<"r", "a", "i", "l", "w", "a", "y", ".", "j", "s", "o", "n">>)
            \/ EqualFold(entry.name, <<"r", "a", "i", "l", "w", "a", "y", ".", "t", "o", "m", "l">>) /\ Len(r.configPaths) = 0
    THEN LET configPath == Join(rootPath, entry.name)
         IN [configPaths |-> Append(r.configPaths, configPath),
             configDirs |-> MapPut(r.configDirs, configPath, rootPath)]
    ELSE r

\* DigitalOceanAppSignal.ObserveEntry: the two appends, to the app spec path the
\* entry stands for
recordAppSpec(d, configPath, rootPath) ==
    [configPaths |-> Append(d.configPaths, configPath),
     configDirs |-> MapPut(d.configDirs, configPath, rootPath)]

\* DigitalOceanAppSignal.ObserveEntry of a directory named .do
observeDoDirectory(d, gfs, repo, appPath, rootPath) ==
    IF ReadFile(gfs, repo, appPath).err = Nil THEN recordAppSpec(d, appPath, rootPath)
    ELSE d

\* DigitalOceanAppSignal.ObserveEntry
DigitalOceanAppSignal_ObserveEntry(d, gfs, repo, rootPath, entry) ==
    IF entry.isDir /\ entry.name = <<".", "d", "o">>
    THEN observeDoDirectory(d, gfs, repo, Join(Join(rootPath, <<".", "d", "o">>), <<"a", "p", "p", ".", "y", "a", "m", "l">>),
                            rootPath)
    ELSE IF /\ ~entry.isDir
            /\ \/ EqualFold(entry.name, <<"a", "p", "p", ".", "y", "a", "m", "l">>)
               \/ EqualFold(entry.name, <<"d", "i", "g", "i", "t", "a", "l", "o", "c", "e", "a", "n", "-", "a", "p", "p", ".", "y", "a", "m", "l">>)
    THEN recordAppSpec(d, Join(rootPath, entry.name), rootPath)
    ELSE d

\* NetlifySignal.ObserveEntry
NetlifySignal_ObserveEntry(n, rootPath, entry) ==
    [currentRootPath |-> rootPath,
     configPaths |-> IF ~entry.isDir /\ EqualFold(entry.name, <<"n", "e", "t", "l", "i", "f", "y", ".", "t", "o", "m", "l">>)
                     THEN Append(n.configPaths, Join(rootPath, entry.name))
                     ELSE n.configPaths]

\* ServiceSignal.ObserveEntry: the signal's new fields and the error it returns
ObserveEntry(state, signal, gfs, repo, rootPath, entry) ==
    [state |-> [state EXCEPT ![signal] =
                   IF signal = "compose"
                   THEN DockerComposeSignal_ObserveEntry(state.compose, rootPath, entry)
                   ELSE IF signal = "dockerfile"
                   THEN DockerfileSignal_ObserveEntry(state.dockerfile, rootPath, entry)
                   ELSE IF signal = "railway"
                   THEN RailwaySignal_ObserveEntry(state.railway, rootPath, entry)
                   ELSE IF signal = "digitalocean"
                   THEN DigitalOceanAppSignal_ObserveEntry(state.digitalocean, gfs, repo,
                                                           rootPath, entry)
                   ELSE IF signal = "netlify"
                   THEN NetlifySignal_ObserveEntry(state.netlify, rootPath, entry)
                   ELSE HelmSignal_ObserveEntry(state.helm, rootPath, entry)],
     err |-> Nil]

\* what a GenerateServices call returns, with the directories it asked ReadDir for
Generated(services, err, readDirs) ==
    [services |-> services, err |-> err, readDirs |-> readDirs]

\* docker_compose.go determineNetwork with hasWebIndicators
determineNetwork(service) ==
    IF Len(service.ports) = 0 /\ service.expose = 0 THEN NetworkNone
    ELSE IF \E i \in DOMAIN service.ports :
               /\ service.ports[i] # <<>>
               /\ LET colons == {j \in DOMAIN service.ports[i] : service.ports[i][j] = ":"}
                      publishedPort ==
                          IF colons = {} THEN service.ports[i]
                          ELSE SubSeq(service.ports[i], Max(colons) + 1, Len(service.ports[i]))
                  IN publishedPort = <<"8", "0">> \/ publishedPort = <<"4", "4", "3">>
    THEN NetworkPublic
    ELSE NetworkPrivate

\* docker_compose.go determineBuild
determineBuild(service) == IF service.hasBuild THEN BuildFromSource ELSE BuildFromImage

\* the types.Service DockerComposeSignal.GenerateServices makes of one service block
composeService(composeSvc, composePath, workingDir) ==
    LET build == determineBuild(composeSvc)
    IN [Name |-> composeSvc.name,
        Network |-> determineNetwork(composeSvc),
        Runtime |-> RuntimeContinuous,
        Build |-> build,
        BuildPath |-> IF build = BuildFromSource /\ composeSvc.hasBuild
                      THEN IF composeSvc.context = <<".">> THEN workingDir
                           ELSE Join(workingDir, composeSvc.context)
                      ELSE <<>>,
        Image |-> IF build = BuildFromImage THEN composeSvc.image ELSE <<>>,
        Configs |-> <<ConfigRef(<<"d", "o", "c", "k", "e", "r", "-", "c", "o", "m", "p", "o", "s", "e">>, composePath)>>]

\* loader.LoadWithContext and the loop over project.Services, a Go map, so the
\* services come in any order; whether the loader of the compose-go library looks at
\* a canceled context is not decided by this repository: it may load or give up
LoadWithContext(context, content, composePath, workingDir) ==
    LET loaded ==
            IF content.kind # "compose"
            THEN {Generated(<<>>, Error("Malformed", <<"y", "a", "m", "l", ":", " ", "u", "n", "m", "a", "r", "s", "h", "a", "l", " ", "e", "r", "r", "o", "r", "s">>), <<>>)}
            ELSE IF content.err # Nil
            THEN {Generated(<<>>, content.err, <<>>)}
            ELSE LET blocks == content.services
                 IN {Generated([i \in 1..Len(order) |->
                                   composeService(blocks[order[i]], composePath, workingDir)],
                               Nil, <<>>) :
                        order \in iterationOrders(DOMAIN blocks)}
    IN IF context = "canceled"
       THEN loaded \cup {Generated(<<>>, Error("Canceled", <<"c", "o", "n", "t", "e", "x", "t", " ", "c", "a", "n", "c", "e", "l", "e", "d">>), <<>>)}
       ELSE loaded

\* DockerComposeSignal.GenerateServices
DockerComposeSignal_GenerateServices(d, gfs, repo, context) ==
    IF Len(d.composeFiles) = 0 THEN {Generated(<<>>, Nil, <<>>)}
    ELSE LET composePath == d.composeFiles[1]
             workingDir == d.composeDirs[composePath]
             read == ReadFile(gfs, repo, composePath)
         IN IF read.err # Nil
            THEN {Generated(<<>>,
                            Wrap(<<"f", "a", "i", "l", "e", "d", " ", "t", "o", " ", "r", "e", "a", "d", " ", "c", "o", "m", "p", "o", "s", "e", " ", "f", "i", "l", "e", " ">> \o composePath \o <<":", " ">>,
                                 read.err), <<>>)}
            ELSE LoadWithContext(context, read.content, composePath, workingDir)

\* the path separator of strings.Split(rel, string(filepath.Separator))
RelFirstPart(rel) == Split(rel)[1]

\* GitHubFS.Rel
Rel(basepath, targpath) ==
    IF HasPrefix(targpath, basepath)
    THEN LET rel == TrimPrefix(TrimPrefix(targpath, basepath), <<"/">>)
         IN IF rel = <<>> THEN <<".">> ELSE rel
    ELSE targpath

\* the elements of a cleaned path as filepath.Rel steps through them
RelElems(p) ==
    IF Len(p) = 0 THEN <<>>
    ELSE IF p = <<"/">> THEN << <<>> >>
    ELSE Split(p)

\* how many leading elements two paths share
RECURSIVE SharedElems(_, _)
SharedElems(a, b) ==
    IF Len(a) = 0 \/ Len(b) = 0 THEN 0
    ELSE IF a[1] # b[1] THEN 0
    ELSE 1 + SharedElems(Tail(a), Tail(b))

\* LocalFS.Rel (filepath.Rel): the relative path and the error
relCannot(basepath, targpath) ==
    [rel |-> <<>>,
     err |-> Error("InvalidInput",
                   <<"R", "e", "l", ":", " ", "c", "a", "n", "'", "t", " ", "m", "a", "k", "e", " ">> \o targpath \o <<" ", "r", "e", "l", "a", "t", "i", "v", "e", " ", "t", "o", " ">> \o basepath)]

relShared(basepath, targpath, be, te, k) ==
    IF k < Len(be) /\ k < Len(te) /\ be[k + 1] = <<".", ".">> THEN relCannot(basepath, targpath)
    ELSE IF k < Len(be)
    THEN [rel |-> JoinSlash([i \in 1..(Len(be) - k) |-> <<".", ".">>]
                            \o SubSeq(te, k + 1, Len(te))),
          err |-> Nil]
    ELSE [rel |-> JoinSlash(SubSeq(te, k + 1, Len(te))), err |-> Nil]

relElements(basepath, targpath, be, te) ==
    relShared(basepath, targpath, be, te, SharedElems(be, te))

relClean(basepath, targpath, base, targ) ==
    IF targ = base THEN [rel |-> <<".">>, err |-> Nil]
    ELSE IF HasPrefix(base, <<"/">>) # HasPrefix(targ, <<"/">>)
    THEN relCannot(basepath, targpath)
    ELSE relElements(basepath, targpath,
                     RelElems(IF base = <<".">> THEN <<>> ELSE base), RelElems(targ))

LocalFS_Rel(basepath, targpath) ==
    relClean(basepath, targpath, Clean(basepath), Clean(targpath))

\* FileSystem.Rel of the filesystem the signal was built with
FileSystemRel(backend, basepath, targpath) ==
    IF backend = "github" THEN [rel |-> Rel(basepath, targpath), err |-> Nil]
    ELSE LocalFS_Rel(basepath, targpath)

\* DockerfileSignal.inferServiceName
nameOfRel(dir, relPath) ==
    IF relPath.err # Nil THEN Base(dir) ELSE RelFirstPart(relPath.rel)

nameOfDir(backend, dir, rootPath) ==
    IF dir = rootPath THEN Base(rootPath)
    ELSE nameOfRel(dir, FileSystemRel(backend, rootPath, dir))

inferServiceName(backend, dockerfilePath, rootPath) ==
    nameOfDir(backend, Dir(dockerfilePath), rootPath)

\* DockerfileSignal.GenerateServices
DockerfileSignal_GenerateServices(d, backend) ==
    IF Len(d.dockerfiles) = 0 THEN {Generated(<<>>, Nil, <<>>)}
    ELSE {Generated(
            [i \in 1..Len(d.dockerfiles) |->
                LET dockerfilePath == d.dockerfiles[i]
                    rootPath == d.dockerfileDirs[dockerfilePath]
                IN [Name |-> inferServiceName(backend, dockerfilePath, rootPath),
                    Network |-> NetworkPrivate,
                    Runtime |-> RuntimeContinuous,
                    Build |-> BuildFromSource,
                    BuildPath |-> Dir(dockerfilePath),
                    Image |-> <<>>,
                    Configs |-> <<ConfigRef(<<"d", "o", "c", "k", "e", "r", "f", "i", "l", "e">>, dockerfilePath)>>]],
            Nil, <<>>)}

\* HelmSignal.parseChartYaml
parseChartYaml(gfs, repo, configPath) ==
    LET read == ReadFile(gfs, repo, configPath)
    IN IF read.err # Nil THEN [chart |-> [Name |-> <<>>], err |-> read.err]
       ELSE IF read.content.kind # "chart" \/ ~read.content.valid
       THEN [chart |-> [Name |-> <<>>], err |-> Error("Malformed", <<"y", "a", "m", "l", ":", " ", "u", "n", "m", "a", "r", "s", "h", "a", "l", " ", "e", "r", "r", "o", "r", "s">>)]
       ELSE [chart |-> [Name |-> read.content.name], err |-> Nil]

\* HelmSignal.deriveServiceName
deriveServiceName(chart, buildPath) ==
    IF chart.Name # <<>> THEN chart.Name ELSE Base(buildPath)

\* HelmSignal.extractImageFromHelm: the first image getAllImagesFromValues finds in
\* values.yaml, "" without one
extractImageFromHelm(gfs, repo, chartDir) ==
    LET read == ReadFile(gfs, repo, Join(chartDir, <<"v", "a", "l", "u", "e", "s", ".", "y", "a", "m", "l">>))
    IN IF read.err # Nil \/ read.content.kind # "values" THEN <<>>
       ELSE read.content.image

\* HelmSignal.hasIngressOrLoadBalancer: its answer, and the directory it reads
hasIngressOrLoadBalancer(gfs, repo, chartDir) ==
    LET templatesDir == Join(chartDir, <<"t", "e", "m", "p", "l", "a", "t", "e", "s">>)
        yielded == ReadDir(gfs, repo, templatesDir)
        isTemplate(y) ==
            /\ y.err = Nil
            /\ ~y.entry.isDir
            /\ (HasSuffix(y.entry.name, <<".", "y", "a", "m", "l">>) \/ HasSuffix(y.entry.name, <<".", "y", "m", "l">>))
        matches(y) ==
            /\ isTemplate(y)
            /\ LET read == ReadFile(gfs, repo, Join(templatesDir, y.entry.name))
               IN read.err = Nil /\ read.content.kind = "template" /\ read.content.ingress
    IN [found |-> \E i \in DOMAIN yielded : matches(yielded[i]),
        readDirs |-> <<templatesDir>>]

\* HelmSignal.hasIngressInValues
hasIngressInValues(gfs, repo, chartDir) ==
    LET read == ReadFile(gfs, repo, Join(chartDir, <<"v", "a", "l", "u", "e", "s", ".", "y", "a", "m", "l">>))
    IN read.err = Nil /\ read.content.kind = "values" /\ read.content.ingress

\* HelmSignal.determineNetworkFromHelm
determineNetworkFromHelm(gfs, repo, chartDir) ==
    LET templates == hasIngressOrLoadBalancer(gfs, repo, chartDir)
    IN [network |-> IF templates.found THEN NetworkPublic
                    ELSE IF hasIngressInValues(gfs, repo, chartDir) THEN NetworkPublic
                    ELSE NetworkPrivate,
        readDirs |-> templates.readDirs]

\* HelmSignal.GenerateServices: the loop over configPaths
RECURSIVE HelmSignal_Loop(_, _, _, _)
HelmSignal_Loop(h, gfs, repo, n) ==
    IF n = 0 THEN Generated(<<>>, Nil, <<>>)
    ELSE LET before == HelmSignal_Loop(h, gfs, repo, n - 1)
             configPath == h.configPaths[n]
             parsed == parseChartYaml(gfs, repo, configPath)
             buildPath == h.configDirs[configPath]
             image == extractImageFromHelm(gfs, repo, buildPath)
             net == determineNetworkFromHelm(gfs, repo, buildPath)
         IN IF parsed.err # Nil
            THEN [before EXCEPT !.services = Append(@,
                     [Name |-> Base(buildPath),
                      Network |-> NetworkPrivate,
                      Runtime |-> RuntimeContinuous,
                      Build |-> BuildFromImage,
                      BuildPath |-> buildPath,
                      Image |-> <<>>,
                      Configs |-> <<ConfigRef(<<"h", "e", "l", "m">>, configPath)>>])]
            ELSE IF image = <<>> THEN before
            ELSE [before EXCEPT
                     !.services = Append(@,
                        [Name |-> deriveServiceName(parsed.chart, buildPath),
                         Network |-> net.network,
                         Runtime |-> RuntimeContinuous,
                         Build |-> BuildFromImage,
                         BuildPath |-> buildPath,
                         Image |-> image,
                         Configs |-> <<ConfigRef(<<"h", "e", "l", "m">>, configPath)>>]),
                     !.readDirs = @ \o net.readDirs]

\* HelmSignal.GenerateServices
HelmSignal_GenerateServices(h, gfs, repo) ==
    {HelmSignal_Loop(h, gfs, repo, Len(h.configPaths))}

\* the zero RailwayConfig and DOAppSpec
NoRailwayConfig == [kind |-> "railway", format |-> "", healthcheckPath |-> <<>>,
                    startCommand |-> <<>>]
NoAppSpec ==
    [kind |-> "appspec", valid |-> FALSE, services |-> <<>>, staticSites |-> <<>>,
     workers |-> <<>>, jobs |-> <<>>, databases |-> <<>>]

\* RailwaySignal.parseRailwayConfig after ReadFile: json.Unmarshal for a path
\* ending in .json, toml.Unmarshal for any other
unmarshalRailwayConfig(read, format) ==
    IF read.err # Nil THEN [config |-> NoRailwayConfig, err |-> read.err]
    ELSE IF read.content.kind # "railway" \/ read.content.format # format
    THEN [config |-> NoRailwayConfig, err |-> Error("Malformed", <<"i", "n", "v", "a", "l", "i", "d", " ", "c", "h", "a", "r", "a", "c", "t", "e", "r">>)]
    ELSE [config |-> read.content, err |-> Nil]

\* RailwaySignal.parseRailwayConfig
parseRailwayConfig(gfs, repo, configPath) ==
    unmarshalRailwayConfig(ReadFile(gfs, repo, configPath),
                           IF HasSuffix(configPath, <<".", "j", "s", "o", "n">>) THEN "json" ELSE "toml")

\* railway.go determineNetworkFromRailway
determineNetworkFromRailway(config) ==
    IF config.healthcheckPath # <<>> THEN NetworkPublic
    ELSE IF config.startCommand # <<>> THEN NetworkPublic
    ELSE NetworkPrivate

\* RailwaySignal.GenerateServices after parseRailwayConfig
railwayServices(parsed, configPath, buildPath) ==
    IF parsed.err # Nil THEN {Generated(<<>>, parsed.err, <<>>)}
    ELSE {Generated(<<[Name |-> Base(buildPath),
                       Network |-> determineNetworkFromRailway(parsed.config),
                       Runtime |-> RuntimeContinuous,
                       Build |-> BuildFromSource,
                       BuildPath |-> buildPath,
                       Image |-> <<>>,
                       Configs |-> <<ConfigRef(<<"r", "a", "i", "l", "w", "a", "y">>, configPath)>>]>>,
                    Nil, <<>>)}

\* RailwaySignal.GenerateServices
RailwaySignal_GenerateServices(r, gfs, repo) ==
    IF Len(r.configPaths) = 0 THEN {Generated(<<>>, Nil, <<>>)}
    ELSE railwayServices(parseRailwayConfig(gfs, repo, r.configPaths[1]),
                         r.configPaths[1], r.configDirs[r.configPaths[1]])

\* NetlifySignal.parseNetlifyConfig after ReadFile: the error of ReadFile or of
\* toml.Unmarshal
unmarshalNetlifyConfig(read) ==
    IF read.err # Nil THEN read.err
    ELSE IF read.content.kind # "netlify" \/ ~read.content.valid
    THEN Error("Malformed", <<"t", "o", "m", "l", ":", " ", "e", "x", "p", "e", "c", "t", "e", "d", " ", "k", "e", "y">>)
    ELSE Nil

\* NetlifySignal.parseNetlifyConfig
parseNetlifyConfig(gfs, repo, configPath) ==
    unmarshalNetlifyConfig(ReadFile(gfs, repo, configPath))

\* NetlifySignal.GenerateServices after parseNetlifyConfig
netlifyServices(n, err, configPath) ==
    IF err # Nil THEN {Generated(<<>>, err, <<>>)}
    ELSE {Generated(<<[Name |-> Base(n.currentRootPath),
                       Network |-> NetworkPublic,
                       Runtime |-> RuntimeContinuous,
                       Build |-> BuildFromSource,
                       BuildPath |-> n.currentRootPath,
                       Image |-> <<>>,
                       Configs |-> <<ConfigRef(<<"n", "e", "t", "l", "i", "f", "y">>, configPath)>>]>>,
                    Nil, <<>>)}

\* NetlifySignal.GenerateServices
NetlifySignal_GenerateServices(n, gfs, repo) ==
    IF Len(n.configPaths) = 0 THEN {Generated(<<>>, Nil, <<>>)}
    ELSE netlifyServices(n, parseNetlifyConfig(gfs, repo, n.configPaths[1]),
                         n.configPaths[1])

\* DigitalOceanAppSignal.parseAppSpec after ReadFile
unmarshalAppSpec(read) ==
    IF read.err # Nil THEN [config |-> NoAppSpec, err |-> read.err]
    ELSE IF read.content.kind # "appspec" \/ ~read.content.valid
    THEN [config |-> NoAppSpec, err |-> Error("Malformed", <<"y", "a", "m", "l", ":", " ", "u", "n", "m", "a", "r", "s", "h", "a", "l", " ", "e", "r", "r", "o", "r", "s">>)]
    ELSE [config |-> read.content, err |-> Nil]

\* DigitalOceanAppSignal.parseAppSpec
parseAppSpec(gfs, repo, configPath) == unmarshalAppSpec(ReadFile(gfs, repo, configPath))

\* determineBuildFromDOApp, determineBuildFromDOWorker, determineBuildFromDOJob
determineBuildFromDOApp(component) ==
    IF component.registry # <<>> THEN BuildFromImage ELSE BuildFromSource

\* part_012 determineDBImageFromEngine
determineDBImageFromEngine(engine) ==
    LET upper == ToUpper(engine)
    IN IF upper \in {<<"P", "G">>, <<"P", "O", "S", "T", "G", "R", "E", "S">>, <<"P", "O", "S", "T", "G", "R", "E", "S", "Q", "L">>} THEN <<"p", "o", "s", "t", "g", "r", "e", "s">>
       ELSE IF upper = <<"M", "Y", "S", "Q", "L">> THEN <<"m", "y", "s", "q", "l">>
       ELSE IF upper = <<"R", "E", "D", "I", "S">> THEN <<"r", "e", "d", "i", "s">>
       ELSE IF upper \in {<<"M", "O", "N", "G", "O", "D", "B">>, <<"M", "O", "N", "G", "O">>} THEN <<"m", "o", "n", "g", "o">>
       ELSE engine

\* the services DigitalOceanAppSignal.GenerateServices makes of one app spec: the
\* services, static sites, workers, jobs and databases, in this order
appSpecServices(config, configPath, buildPath) ==
    LET configs == <<ConfigRef(<<"d", "i", "g", "i", "t", "a", "l", "o", "c", "e", "a", "n", "-", "a", "p", "p">>, configPath)>>
        built(c, network, runtime) ==
            [Name |-> c.name, Network |-> network, Runtime |-> runtime,
             Build |-> determineBuildFromDOApp(c), BuildPath |-> buildPath,
             Image |-> c.registry, Configs |-> configs]
    IN [i \in DOMAIN config.services |->
           built(config.services[i], NetworkPublic, RuntimeContinuous)]
       \o [i \in DOMAIN config.staticSites |->
              [Name |-> config.staticSites[i].name, Network |-> NetworkPublic,
               Runtime |-> RuntimeContinuous, Build |-> BuildFromSource,
               BuildPath |-> buildPath, Image |-> <<>>, Configs |-> configs]]
       \o [i \in DOMAIN config.workers |->
              built(config.workers[i], NetworkNone, RuntimeContinuous)]
       \o [i \in DOMAIN config.jobs |->
              built(config.jobs[i], NetworkNone, RuntimeScheduled)]
       \o [i \in DOMAIN config.databases |->
              [Name |-> config.databases[i].name, Network |-> NetworkPrivate,
               Runtime |-> RuntimeContinuous, Build |-> BuildFromImage,
               BuildPath |-> <<>>,
               Image |-> determineDBImageFromEngine(config.databases[i].engine),
               Configs |-> configs]]

\* DigitalOceanAppSignal.GenerateServices: the build path of a config directory,
\* the parent of a directory named .do
appBuildPath(dir, parent) ==
    IF HasSuffix(dir, <<"/", ".", "d", "o">>) \/ dir = <<".", "d", "o">>
    THEN IF parent = <<>> \/ parent = <<".">> THEN <<".">> ELSE parent
    ELSE dir

\* DigitalOceanAppSignal.GenerateServices: one turn of the loop over configPaths
appendAppSpec(before, parsed, configPath, buildPath) ==
    IF parsed.err # Nil THEN before
    ELSE before \o appSpecServices(parsed.config, configPath, buildPath)

\* DigitalOceanAppSignal.GenerateServices: the loop over configPaths
RECURSIVE DigitalOceanAppSignal_Loop(_, _, _, _)
DigitalOceanAppSignal_Loop(d, gfs, repo, n) ==
    IF n = 0 THEN <<>>
    ELSE appendAppSpec(DigitalOceanAppSignal_Loop(d, gfs, repo, n - 1),
                       parseAppSpec(gfs, repo, d.configPaths[n]),
                       d.configPaths[n],
                       appBuildPath(d.configDirs[d.configPaths[n]],
                                    Dir(d.configDirs[d.configPaths[n]])))

\* DigitalOceanAppSignal.GenerateServices
DigitalOceanAppSignal_GenerateServices(d, gfs, repo) ==
    {Generated(DigitalOceanAppSignal_Loop(d, gfs, repo, Len(d.configPaths)), Nil, <<>>)}

\* ServiceSignal.GenerateServices: the results the call can have
GenerateServices(state, signal, gfs, repo, context) ==
    IF signal = "compose"
    THEN DockerComposeSignal_GenerateServices(state.compose, gfs, repo, context)
    ELSE IF signal = "dockerfile"
    THEN DockerfileSignal_GenerateServices(state.dockerfile, repo.backend)
    ELSE IF signal = "railway" THEN RailwaySignal_GenerateServices(state.railway, gfs, repo)
    ELSE IF signal = "digitalocean"
    THEN DigitalOceanAppSignal_GenerateServices(state.digitalocean, gfs, repo)
    ELSE IF signal = "netlify" THEN NetlifySignal_GenerateServices(state.netlify, gfs, repo)
    ELSE HelmSignal_GenerateServices(state.helm, gfs, repo)

\* ------------------------------------------------------------------ repositories

\* how many directories lie below each other in the deepest repository
MaxTreeDepth == 6

\* how many times Discover is called on one ServiceDiscovery
MaxRuns == 2

\* how many services the results handed to triangulateServices hold together
MaxServices == 2

Other == [kind |-> "other"]
Chart(valid, name) == [kind |-> "chart", valid |-> valid, name |-> name]
Values(image, ingress) == [kind |-> "values", image |-> image, ingress |-> ingress]
Template(ingress) == [kind |-> "template", ingress |-> ingress]
Railway(format, healthcheckPath, startCommand) ==
    [kind |-> "railway", format |-> format, healthcheckPath |-> healthcheckPath,
     startCommand |-> startCommand]
Netlify(valid) == [kind |-> "netlify", valid |-> valid]
Component(name, registry, engine) == [name |-> name, registry |-> registry, engine |-> engine]
AppSpec(valid, services, staticSites, workers, jobs, databases) ==
    [kind |-> "appspec", valid |-> valid, services |-> services,
     staticSites |-> staticSites, workers |-> workers, jobs |-> jobs,
     databases |-> databases]
Compose(err, services) == [kind |-> "compose", err |-> err, services |-> services]
ComposeBlock(name, hasBuild, context, image, ports, expose) ==
    [name |-> name, hasBuild |-> hasBuild, context |-> context, image |-> image,
     ports |-> ports, expose |-> expose]

\* a source tree and the way it is reached: the backend, the walk root
\* (fs.GetBasePath of the URI), the subpath and the download status of an archive,
\* the entries in archive order, the local directories that cannot be opened, and
\* what goes wrong in the download apart from the status
Repo(backend, root, basePath, http, files, denied) ==
    [backend |-> backend, root |-> root, basePath |-> basePath, http |-> http,
     files |-> files, denied |-> denied, fault |-> "none"]

\* the failures of downloadAndIndex that are no HTTP status: os.CreateTemp fails,
\* the request gets no answer, the request the API endpoint redirects to gets none,
\* the body breaks off, the body is no zip archive
Faults == {"createTemp", "transport", "redirect", "copy", "zip"}

Faulty(r, fault) == [r EXCEPT !.fault = fault]

\* d, d/d, d/d/d, ...
RECURSIVE ChainDir(_)
ChainDir(n) == IF n = 1 THEN <<"d">> ELSE ChainDir(n - 1) \o <<"/", "d">>

RECURSIVE ChainFiles(_)
ChainFiles(n) ==
    IF n = 0 THEN <<>>
    ELSE ChainFiles(n - 1) \o
         <<File(ChainDir(n), TRUE, Other), File(ChainDir(n) \o <<"/", "D", "o", "c", "k", "e", "r", "f", "i", "l", "e">>, FALSE, Other)>>

FlaskFiles ==
    <<File(<<"c", "o", "m", "p", "o", "s", "e", ".", "y", "a", "m", "l">>, FALSE,
           Compose(Nil, <<ComposeBlock(<<"w", "e", "b">>, TRUE, <<"a", "p", "p">>, <<>>, <<<<"5", "0", "0", "0">>>>, 0),
                          ComposeBlock(<<"r", "e", "d", "i", "s">>, FALSE, <<>>, <<"r", "e", "d", "i", "s", ":", "7">>, <<>>, 0)>>)),
      File(<<"a", "p", "p">>, TRUE, Other),
      File(<<"a", "p", "p", "/", "D", "o", "c", "k", "e", "r", "f", "i", "l", "e">>, FALSE, Other)>>

HelmFiles ==
    <<File(<<"c">>, TRUE, Other),
      File(<<"c", "/", "C", "h", "a", "r", "t", ".", "y", "a", "m", "l">>, FALSE, Chart(TRUE, <<"a", "p", "i">>)),
      File(<<"c", "/", "v", "a", "l", "u", "e", "s", ".", "y", "a", "m", "l">>, FALSE, Values(<<"i", "m", "g">>, FALSE)),
      File(<<"c", "/", "t", "e", "m", "p", "l", "a", "t", "e", "s">>, TRUE, Other),
      File(<<"c", "/", "t", "e", "m", "p", "l", "a", "t", "e", "s", "/", "i", ".", "y", "a", "m", "l">>, FALSE, Template(TRUE)),
      File(<<"w">>, TRUE, Other),
      File(<<"w", "/", "C", "h", "a", "r", "t", ".", "y", "a", "m", "l">>, FALSE, Chart(TRUE, <<>>)),
      File(<<"w", "/", "v", "a", "l", "u", "e", "s", ".", "y", "a", "m", "l">>, FALSE, Values(<<"i", "m", "g">>, TRUE)),
      File(<<"b">>, TRUE, Other),
      File(<<"b", "/", "C", "h", "a", "r", "t", ".", "y", "a", "m", "l">>, FALSE, Chart(FALSE, <<>>)),
      File(<<"n">>, TRUE, Other),
      File(<<"n", "/", "C", "h", "a", "r", "t", ".", "y", "a", "m", "l">>, FALSE, Chart(TRUE, <<"l", "i", "b">>))>>

IgnoredFiles ==
    <<File(<<".", "d", "o">>, TRUE, Other), File(<<".", "d", "o", "/", "D", "o", "c", "k", "e", "r", "f", "i", "l", "e">>, FALSE, Other),
      File(<<".", "g", "i", "t">>, TRUE, Other), File(<<".", "g", "i", "t", "/", "D", "o", "c", "k", "e", "r", "f", "i", "l", "e">>, FALSE, Other),
      File(<<".", "v", "e", "r", "c", "e", "l">>, TRUE, Other), File(<<".", "v", "e", "r", "c", "e", "l", "/", "D", "o", "c", "k", "e", "r", "f", "i", "l", "e">>, FALSE, Other),
      File(<<"B", "u", "i", "l", "d">>, TRUE, Other), File(<<"B", "u", "i", "l", "d", "/", "D", "o", "c", "k", "e", "r", "f", "i", "l", "e">>, FALSE, Other),
      File(<<"_", "x">>, TRUE, Other), File(<<"_", "x", "/", "D", "o", "c", "k", "e", "r", "f", "i", "l", "e">>, FALSE, Other),
      File(<<"s", "r", "c">>, TRUE, Other), File(<<"s", "r", "c", "/", "D", "o", "c", "k", "e", "r", "f", "i", "l", "e", ".", "d", "e", "v">>, FALSE, Other),
      File(<<"t", "m", "p">>, TRUE, Other), File(<<"t", "m", "p", "/", "D", "o", "c", "k", "e", "r", "f", "i", "l", "e">>, FALSE, Other)>>

MalformedFiles ==
    <<File(<<"D", "o", "c", "k", "e", "r", "f", "i", "l", "e">>, FALSE, Other),
      File(<<"d", "o", "c", "k", "e", "r", "-", "c", "o", "m", "p", "o", "s", "e", ".", "y", "m", "l">>, FALSE,
           Compose(Error("Malformed", <<"y", "a", "m", "l", ":", " ", "l", "i", "n", "e", " ", "1", ":", " ", "d", "i", "d", " ", "n", "o", "t", " ", "f", "i", "n", "d", " ", "e", "x", "p", "e", "c", "t", "e", "d", " ", "k", "e", "y">>), <<>>))>>

SiblingFiles ==
    <<File(<<"a">>, TRUE, Other), File(<<"a", "/", "D", "o", "c", "k", "e", "r", "f", "i", "l", "e">>, FALSE, Other),
      File(<<"b">>, TRUE, Other), File(<<"b", "/", "c">>, TRUE, Other),
      File(<<"b", "/", "c", "/", "D", "o", "c", "k", "e", "r", "f", "i", "l", "e">>, FALSE, Other), File(<<"b", "/", "D", "o", "c", "k", "e", "r", "f", "i", "l", "e">>, FALSE, Other)>>

LocalFiles ==
    <<File(<<"a", "p", "p">>, TRUE, Other), File(<<"a", "p", "p", "/", "D", "o", "c", "k", "e", "r", "f", "i", "l", "e">>, FALSE, Other),
      File(<<"s", "e", "c", "r", "e", "t">>, TRUE, Other), File(<<"s", "e", "c", "r", "e", "t", "/", "D", "o", "c", "k", "e", "r", "f", "i", "l", "e">>, FALSE, Other),
      File(<<"t", "o", "k", "e", "n", "s">>, TRUE, Other), File(<<"t", "o", "k", "e", "n", "s", "/", "D", "o", "c", "k", "e", "r", "f", "i", "l", "e">>, FALSE, Other)>>

\* one directory with both Railway configs, railway.toml first in the archive
RailwayFiles ==
    <<File(<<"r", "a", "i", "l", "w", "a", "y", ".", "t", "o", "m", "l">>, FALSE, Railway("toml", <<>>, <<>>)),
      File(<<"r", "a", "i", "l", "w", "a", "y", ".", "j", "s", "o", "n">>, FALSE, Railway("json", <<"/", "h", "e", "a", "l", "t", "h">>, <<>>))>>

\* the same directory on a local disk, which lists names in byte order
RailwayLocalFiles ==
    <<File(<<"r", "a", "i", "l", "w", "a", "y", ".", "j", "s", "o", "n">>, FALSE, Railway("json", <<>>, <<"n", "p", "m", " ", "s", "t", "a", "r", "t">>)),
      File(<<"R", "a", "i", "l", "w", "a", "y", ".", "t", "o", "m", "l">>, FALSE, Railway("toml", <<>>, <<>>))>>

RailwayJsonFirstFiles ==
    <<File(<<"r", "a", "i", "l", "w", "a", "y", ".", "j", "s", "o", "n">>, FALSE, Railway("json", <<"/", "h", "e", "a", "l", "t", "h">>, <<>>)),
      File(<<"r", "a", "i", "l", "w", "a", "y", ".", "t", "o", "m", "l">>, FALSE, Railway("toml", <<>>, <<>>))>>

\* a site with its netlify.toml and a directory beside it
NetlifyFiles ==
    <<File(<<"s", "i", "t", "e">>, TRUE, Other),
      File(<<"s", "i", "t", "e", "/", "n", "e", "t", "l", "i", "f", "y", ".", "t", "o", "m", "l">>, FALSE, Netlify(TRUE)),
      File(<<"s", "i", "t", "e", "/", "s", "r", "c">>, TRUE, Other),
      File(<<"s", "i", "t", "e", "/", "s", "r", "c", "/", "i", "n", "d", "e", "x", ".", "j", "s">>, FALSE, Other)>>

NetlifyOnlyFiles == <<File(<<"n", "e", "t", "l", "i", "f", "y", ".", "t", "o", "m", "l">>, FALSE, Netlify(TRUE))>>

NetlifyBrokenFiles == <<File(<<"n", "e", "t", "l", "i", "f", "y", ".", "t", "o", "m", "l">>, FALSE, Netlify(FALSE))>>

\* an app spec at .do/app.yaml with a service and a database
DoFiles ==
    <<File(<<".", "d", "o">>, TRUE, Other),
      File(<<".", "d", "o", "/", "a", "p", "p", ".", "y", "a", "m", "l">>, FALSE,
           AppSpec(TRUE, <<Component(<<"w", "e", "b">>, <<>>, <<>>)>>, <<>>, <<>>, <<>>,
                   <<Component(<<"d", "b">>, <<>>, <<"P", "G">>)>>))>>

\* an app spec in the root with one component of every kind
DoRootFiles ==
    <<File(<<"a", "p", "p", ".", "y", "a", "m", "l">>, FALSE,
           AppSpec(TRUE, <<Component(<<"a", "p", "i">>, <<"g", "h", "c", "r", ".", "i", "o", "/", "x", "/", "a", "p", "i">>, <<>>)>>,
                   <<Component(<<"d", "o", "c", "s">>, <<>>, <<>>)>>,
                   <<Component(<<"q", "u", "e", "u", "e">>, <<>>, <<>>)>>,
                   <<Component(<<"c", "r", "o", "n">>, <<>>, <<>>)>>,
                   <<Component(<<"c", "a", "c", "h", "e">>, <<>>, <<"r", "e", "d", "i", "s">>)>>)),
      File(<<"d", "i", "g", "i", "t", "a", "l", "o", "c", "e", "a", "n", "-", "a", "p", "p", ".", "y", "a", "m", "l">>, FALSE,
           AppSpec(FALSE, <<>>, <<>>, <<>>, <<>>, <<>>))>>

\* the repositories Discover is run on with the platform signals
PlatformRepos ==
    {Repo("github", <<".">>, <<>>, 200, RailwayFiles, {}),
     Repo("github", <<".">>, <<>>, 200, RailwayJsonFirstFiles, {}),
     Repo("local", <<".">>, <<>>, 200, RailwayLocalFiles, {}),
     Repo("github", <<".">>, <<>>, 200, NetlifyFiles, {}),
     Repo("github", <<".">>, <<>>, 200, NetlifyOnlyFiles, {}),
     Repo("github", <<".">>, <<>>, 200, NetlifyBrokenFiles, {}),
     Repo("github", <<".">>, <<>>, 200, DoFiles, {}),
     Repo("github", <<".">>, <<>>, 200, DoRootFiles, {}),
     Repo("github", <<".">>, <<>>, 200, ChainFiles(MaxTreeDepth), {}),
     Repo("github", <<".">>, <<>>, 200, IgnoredFiles, {}),
     Repo("github", <<".">>, <<>>, 401, DoFiles, {}),
     Repo("local", <<".">>, <<>>, 200, LocalFiles, {<<"s", "e", "c", "r", "e", "t">>})}

\* the repositories Discover is run on
Repos ==
    {Repo("github", <<".">>, <<>>, 200, FlaskFiles, {}),
     Repo("github", <<".">>, <<>>, 200, HelmFiles, {}),
     Repo("github", <<".">>, <<>>, 200, IgnoredFiles, {}),
     Repo("github", <<".">>, <<>>, 200, ChainFiles(MaxTreeDepth), {}),
     Repo("github", <<".">>, <<>>, 200, MalformedFiles, {}),
     Repo("github", <<".">>, <<>>, 200, SiblingFiles, {}),
     Repo("github", <<".">>, <<>>, 200, <<>>, {}),
     Repo("github", <<".">>, <<>>, 401, FlaskFiles, {}),
     Repo("github", <<".">>, <<>>, 429, FlaskFiles, {}),
     Faulty(Repo("github", <<".">>, <<>>, 200, FlaskFiles, {}), "transport"),
     Faulty(Repo("github", <<".">>, <<>>, 200, FlaskFiles, {}), "zip"),
     Repo("github", <<".">>, <<"a", "p", "p">>, 200, FlaskFiles, {}),
     Repo("github", <<".">>, <<"a", "p", "i">>, 200, FlaskFiles, {}),
     Repo("github", <<".">>, <<"t", "o", "k", "e", "n", "s">>, 200, FlaskFiles, {}),
     Repo("local", <<"t", "m", "p">>, <<>>, 200, IgnoredFiles, {}),
     Repo("local", <<".", "/", "a", "p", "p">>, <<>>, 200, LocalFiles, {}),
     Repo("local", <<"/", "w", "/", "d">>, <<>>, 200, SubSeq(LocalFiles, 1, 2), {}),
     Repo("local", <<".", ".">>, <<>>, 200, SubSeq(LocalFiles, 1, 2), {}),
     Repo("local", <<".", ".", "/", "d">>, <<>>, 200, SubSeq(LocalFiles, 1, 2), {})}
    \cup {Repo("local", <<".">>, <<>>, 200, LocalFiles, denied) :
             denied \in SUBSET {<<"s", "e", "c", "r", "e", "t">>, <<"t", "o", "k", "e", "n", "s">>}}
    \cup {Repo("local", <<".">>, <<>>, 200, SubSeq(LocalFiles, 3, 6), denied) :
             denied \in {{<<"s", "e", "c", "r", "e", "t">>, <<"t", "o", "k", "e", "n", "s">>}}}

\* ------------------------------------------------------------------ state

VARIABLES
    repo,               \* the source tree Discover runs on
    filesystem,         \* sd.filesystem: the GitHubFS fields (unused by LocalFS)
    signals,            \* the fields of sd.signals
    pc,                 \* where Discover stands
    run,                \* how many times Discover was called
    sigIdx,             \* the index of the range over sd.signals
    stack,              \* walkRepoIterative: the stack of walkItems
    current,            \* walkRepoIterative: the popped walkItem
    stream,             \* what the ReadDir iterator has yet to yield
    entry,              \* the entry being shown to the signals
    observing,          \* signal -> ObserveEntry calls that have not returned
    lastCriticalError,  \* Discover: lastCriticalError
    results,            \* Discover: results
    ret,                \* what Discover returned
    hist,               \* the calls of this run, in order (observation only)
    tri,                \* the triangulation of a given list of results
    ctx,                \* the context.Context handed to Discover
    vfs,                \* GitHubFS instances and the calls made on them
    env                 \* the extraction of environment variables

vars == <<repo, filesystem, signals, pc, run, sigIdx, stack, current, stream, entry,
          observing, lastCriticalError, results, ret, hist, tri, ctx, vfs, env>>

discoverVars == <<repo, filesystem, signals, pc, run, sigIdx, stack, current, stream,
                  entry, observing, lastCriticalError, results, ret, hist, ctx>>

\* sd.signals: the signals NewServiceDiscovery was given, in registration order
Signals == signals.order

\* depth cap of the walk
maxDepth == 4

walkItem(path, depth) == [path |-> path, depth |-> depth]

NoReturn == [returned |-> FALSE, services |-> <<>>, err |-> Nil]
Return(services, err) == [returned |-> TRUE, services |-> services, err |-> err]

NoHist ==
    [log |-> [s \in {Signals[i] : i \in DOMAIN Signals} |-> <<>>],
     observed |-> <<>>, yielded |-> <<>>, readDirs |-> <<>>, produced |-> <<>>,
     generated |-> <<>>, cancel |-> [observed |-> 0, generated |-> 0]]

NoVfs == [phase |-> "off"]

NoEnv == [phase |-> "off"]

NoTri ==
    [phase |-> "off", input |-> <<>>, output |-> <<>>, second |-> <<>>, refed |-> <<>>,
     again |-> <<>>]

Init ==
    /\ repo \in Repos
    /\ filesystem = NewGitHubFS(<<"m">>, <<>>, NotDetected)
    /\ signals = NewSignals
    /\ pc = "idle"
    /\ run = 0
    /\ sigIdx = 1
    /\ stack = <<>>
    /\ current = walkItem(<<>>, 0)
    /\ stream = <<>>
    /\ entry = NoEntry
    /\ observing = [s \in {Signals[i] : i \in DOMAIN Signals} |-> 0]
    /\ lastCriticalError = Nil
    /\ results = <<>>
    /\ ret = NoReturn
    /\ env = NoEnv
    /\ hist = NoHist
    /\ tri = NoTri
    /\ ctx = "live"
    /\ vfs = NoVfs

\* ------------------------------------------------------------------ Discover

resetRangeFirstOnly == 1..1

\* the signals the first loop of Discover resets
resetRange == DOMAIN Signals

\* Discover is called (again)
DiscoverCall ==
    /\ pc \in {"idle", "done"}
    /\ run < MaxRuns
    /\ pc' = "reset"
    /\ run' = run + 1
    /\ sigIdx' = 1
    /\ lastCriticalError' = Nil
    /\ results' = <<>>
    /\ ret' = NoReturn
    /\ hist' = NoHist
    /\ ctx' \in {"live", "canceled"}
    /\ UNCHANGED <<repo, filesystem, signals, stack, current, stream, entry, observing, tri,
                   vfs, env>>

\* signal.Reset() for one signal of the loop
ResetSignal ==
    /\ pc = "reset"
    /\ sigIdx <= Len(Signals)
    /\ signals' = IF sigIdx \in resetRange THEN Reset(signals, Signals[sigIdx]) ELSE signals
    /\ hist' = IF sigIdx \in resetRange
               THEN [hist EXCEPT !.log[Signals[sigIdx]] = Append(@, "Reset")]
               ELSE hist
    /\ sigIdx' = sigIdx + 1
    /\ UNCHANGED <<repo, filesystem, pc, run, stack, current, stream, entry, observing,
                   lastCriticalError, results, ret, tri, ctx, vfs, env>>

\* walkRepoIterative is entered: the stack holds the root
WalkCall ==
    /\ pc = "reset"
    /\ sigIdx > Len(Signals)
    /\ pc' = "walk"
    /\ stack' = <<walkItem(repo.root, 0)>>
    /\ UNCHANGED <<repo, filesystem, signals, run, sigIdx, current, stream, entry, observing,
                   lastCriticalError, results, ret, hist, tri, ctx, vfs, env>>

tooDeepOffByOne(depth) == depth >= maxDepth

tooDeepNever(depth) == FALSE

\* current.depth > maxDepth
tooDeep(depth) == depth > maxDepth

\* a popped item beyond the depth cap is dropped
WalkSkipDepth ==
    /\ pc = "walk"
    /\ Len(stack) > 0
    /\ tooDeep(stack[Len(stack)].depth)
    /\ current' = stack[Len(stack)]
    /\ stack' = SubSeq(stack, 1, Len(stack) - 1)
    /\ UNCHANGED <<repo, filesystem, signals, pc, run, sigIdx, stream, entry, observing,
                   lastCriticalError, results, ret, hist, tri, ctx, vfs, env>>

\* a popped item whose base name is ignored is dropped
WalkSkipIgnored ==
    /\ pc = "walk"
    /\ Len(stack) > 0
    /\ ~tooDeep(stack[Len(stack)].depth)
    /\ shouldIgnoreDirectory(Base(stack[Len(stack)].path))
    /\ current' = stack[Len(stack)]
    /\ stack' = SubSeq(stack, 1, Len(stack) - 1)
    /\ UNCHANGED <<repo, filesystem, signals, pc, run, sigIdx, stream, entry, observing,
                   lastCriticalError, results, ret, hist, tri, ctx, vfs, env>>

\* filesystem.ReadDir(current.path) of a popped item
WalkReadDir ==
    /\ pc = "walk"
    /\ Len(stack) > 0
    /\ ~tooDeep(stack[Len(stack)].depth)
    /\ ~shouldIgnoreDirectory(Base(stack[Len(stack)].path))
    /\ current' = stack[Len(stack)]
    /\ stack' = SubSeq(stack, 1, Len(stack) - 1)
    /\ filesystem' = IF repo.backend = "github" THEN ensureInitialized(filesystem, repo)
                     ELSE filesystem
    /\ stream' = ReadDir(filesystem', repo, current'.path)
    /\ hist' = [hist EXCEPT !.readDirs = Append(@, [path |-> current'.path, by |-> "walk"])]
    /\ pc' = "entries"
    /\ UNCHANGED <<repo, signals, run, sigIdx, entry, observing, lastCriticalError, results,
                   ret, tri, ctx, vfs, env>>

\* the iterator yields an error
WalkEntryError ==
    /\ pc = "entries"
    /\ Len(stream) > 0
    /\ Head(stream).err # Nil
    /\ lastCriticalError' =
          IF isCriticalError(Head(stream).err) THEN Head(stream).err ELSE lastCriticalError
    /\ hist' = [hist EXCEPT !.produced = Append(@, Head(stream).err)]
    /\ stream' = Tail(stream)
    /\ UNCHANGED <<repo, filesystem, signals, pc, run, sigIdx, stack, current, entry,
                   observing, results, ret, tri, ctx, vfs, env>>

\* the iterator yields an entry: the loop over the signals begins
WalkEntry ==
    /\ pc = "entries"
    /\ Len(stream) > 0
    /\ Head(stream).err = Nil
    /\ entry' = Head(stream).entry
    /\ stream' = Tail(stream)
    /\ hist' = [hist EXCEPT !.yielded = Append(@, <<current.path, Head(stream).entry.name>>)]
    /\ sigIdx' = 1
    /\ pc' = "observe"
    /\ UNCHANGED <<repo, filesystem, signals, run, stack, current, observing,
                   lastCriticalError, results, ret, tri, ctx, vfs, env>>

\* signal.ObserveEntry(ctx, current.path, entry) is called
ObserveCall ==
    /\ pc = "observe"
    /\ sigIdx <= Len(Signals)
    /\ observing' = [observing EXCEPT ![Signals[sigIdx]] = @ + 1]
    /\ pc' = "observing"
    /\ UNCHANGED <<repo, filesystem, signals, run, sigIdx, stack, current, stream, entry,
                   lastCriticalError, results, ret, hist, tri, ctx, vfs, env>>

\* signal.ObserveEntry returns
ObserveReturn ==
    /\ pc = "observing"
    /\ \E s \in {Signals[sigIdx]} :
       \E out \in {ObserveEntry(signals, s, filesystem, repo, current.path, entry)} :
          /\ signals' = out.state
          /\ lastCriticalError' =
                IF out.err # Nil /\ isCriticalError(out.err) THEN out.err
                ELSE lastCriticalError
          /\ hist' = [hist EXCEPT
                         !.log[s] = Append(@, "ObserveEntry"),
                         !.observed = Append(@, <<s, current.path, entry.name>>),
                         !.produced = IF out.err # Nil THEN Append(@, out.err) ELSE @]
          /\ observing' = [observing EXCEPT ![s] = @ - 1]
    /\ sigIdx' = sigIdx + 1
    /\ pc' = "observe"
    /\ UNCHANGED <<repo, filesystem, run, stack, current, stream, entry, results, ret, tri,
                   ctx, vfs, env>>

pushSubdirFirst(stk, item, e) ==
    IF e.isDir THEN <<walkItem(Join(item.path, e.name), item.depth + 1)>> \o stk
    ELSE stk

pushSubdirTwice(stk, item, e) ==
    IF e.isDir
    THEN stk \o <<walkItem(Join(item.path, e.name), item.depth + 1),
                  walkItem(Join(item.path, e.name), item.depth + 1)>>
    ELSE stk

\* if entry.IsDir() { stack = append(stack, walkItem{subPath, current.depth + 1}) }
pushSubdir(stk, item, e) ==
    IF e.isDir THEN Append(stk, walkItem(Join(item.path, e.name), item.depth + 1))
    ELSE stk

\* every signal has seen the entry: a subdirectory goes on the stack
WalkPush ==
    /\ pc = "observe"
    /\ sigIdx > Len(Signals)
    /\ stack' = pushSubdir(stack, current, entry)
    /\ pc' = "entries"
    /\ UNCHANGED <<repo, filesystem, signals, run, sigIdx, current, stream, entry, observing,
                   lastCriticalError, results, ret, hist, tri, ctx, vfs, env>>

\* the iterator is exhausted
WalkDirDone ==
    /\ pc = "entries"
    /\ Len(stream) = 0
    /\ pc' = "walk"
    /\ UNCHANGED <<repo, filesystem, signals, run, sigIdx, stack, current, stream, entry,
                   observing, lastCriticalError, results, ret, hist, tri, ctx, vfs, env>>

\* the stack is empty: walkRepoIterative returns nil
WalkReturn ==
    /\ pc = "walk"
    /\ Len(stack) = 0
    /\ pc' = "generate"
    /\ sigIdx' = 1
    /\ UNCHANGED <<repo, filesystem, signals, run, stack, current, stream, entry, observing,
                   lastCriticalError, results, ret, hist, tri, ctx, vfs, env>>

\* signal.GenerateServices(ctx) for one signal of the second loop
Generate ==
    /\ pc = "generate"
    /\ sigIdx <= Len(Signals)
    /\ \E out \in GenerateServices(signals, Signals[sigIdx], filesystem, repo, ctx) :
          /\ lastCriticalError' =
                IF out.err # Nil /\ isCriticalError(out.err) THEN out.err
                ELSE lastCriticalError
          /\ results' =
                IF out.err = Nil /\ Len(out.services) > 0
                THEN Append(results, signalResult(out.services,
                                                  Confidence(Signals[sigIdx]),
                                                  Signals[sigIdx]))
                ELSE results
          /\ hist' = [hist EXCEPT
                         !.log[Signals[sigIdx]] = Append(@, "GenerateServices"),
                         !.readDirs = @ \o [i \in 1..Len(out.readDirs) |->
                                               [path |-> out.readDirs[i],
                                                by |-> Signals[sigIdx]]],
                         !.produced = IF out.err # Nil THEN Append(@, out.err) ELSE @,
                         !.generated = Append(@, [signal |-> Signals[sigIdx],
                                                  services |-> out.services,
                                                  err |-> out.err])]
    /\ sigIdx' = sigIdx + 1
    /\ UNCHANGED <<repo, filesystem, signals, pc, run, stack, current, stream, entry,
                   observing, ret, tri, ctx, vfs, env>>

surfacesAnyCritical(res, lastErr) == lastErr # Nil

\* len(results) == 0 && lastCriticalError != nil
surfaces(res, lastErr) == Len(res) = 0 /\ lastErr # Nil

\* Discover returns the last critical error
DiscoverFail ==
    /\ pc = "generate"
    /\ sigIdx > Len(Signals)
    /\ surfaces(results, lastCriticalError)
    /\ ret' = Return(<<>>,
          Wrap(<<"s", "e", "r", "v", "i", "c", "e", " ", "d", "i", "s", "c", "o", "v", "e", "r", "y", " ", "f", "a", "i", "l", "e", "d", " ", "w", "i", "t", "h", " ", "a", "u", "t", "h", "e", "n", "t", "i", "c", "a", "t", "i", "o", "n", " ", "o", "r", " ", "p", "e", "r", "m", "i", "s", "s", "i", "o", "n", " ", "e", "r", "r", "o", "r", ":", " ">>,
               lastCriticalError))
    /\ pc' = "done"
    /\ UNCHANGED <<repo, filesystem, signals, run, sigIdx, stack, current, stream, entry,
                   observing, lastCriticalError, results, hist, tri, ctx, vfs, env>>

\* Discover returns triangulateServices(results)
DiscoverReturn ==
    /\ pc = "generate"
    /\ sigIdx > Len(Signals)
    /\ ~surfaces(results, lastCriticalError)
    /\ \E merged \in triangulateServices(results) : ret' = Return(merged, Nil)
    /\ pc' = "done"
    /\ UNCHANGED <<repo, filesystem, signals, run, sigIdx, stack, current, stream, entry,
                   observing, lastCriticalError, results, hist, tri, ctx, vfs, env>>

\* the caller cancels the context while the walk stands between two pops, or
\* while the loop over GenerateServices has a signal left
Cancel ==
    /\ ctx = "live"
    /\ \/ pc = "walk"
       \/ pc = "generate" /\ sigIdx <= Len(Signals)
    /\ ctx' = "canceled"
    /\ hist' = [hist EXCEPT !.cancel = [observed |-> Len(hist.observed),
                                        generated |-> Len(hist.generated)]]
    /\ UNCHANGED <<repo, filesystem, signals, pc, run, sigIdx, stack, current, stream, entry,
                   observing, lastCriticalError, results, ret, tri, vfs, env>>

Next ==
    \/ DiscoverCall
    \/ Cancel
    \/ ResetSignal
    \/ WalkCall
    \/ WalkSkipDepth
    \/ WalkSkipIgnored
    \/ WalkReadDir
    \/ WalkEntryError
    \/ WalkEntry
    \/ ObserveCall
    \/ ObserveReturn
    \/ WalkPush
    \/ WalkDirDone
    \/ WalkReturn
    \/ Generate
    \/ DiscoverFail
    \/ DiscoverReturn

Spec == Init /\ [][Next]_vars

\* Discover of a ServiceDiscovery made with the Railway, DigitalOcean and Netlify signals
PlatformInit ==
    /\ repo \in PlatformRepos
    /\ filesystem = NewGitHubFS(<<"m">>, <<>>, NotDetected)
    /\ signals = PlatformSignals
    /\ pc = "idle"
    /\ run = 0
    /\ sigIdx = 1
    /\ stack = <<>>
    /\ current = walkItem(<<>>, 0)
    /\ stream = <<>>
    /\ entry = NoEntry
    /\ observing = [s \in {Signals[i] : i \in DOMAIN Signals} |-> 0]
    /\ lastCriticalError = Nil
    /\ results = <<>>
    /\ ret = NoReturn
    /\ env = NoEnv
    /\ hist = NoHist
    /\ tri = NoTri
    /\ ctx = "live"
    /\ vfs = NoVfs

PlatformSpec == PlatformInit /\ [][Next]_vars

\* ------------------------------------------------------------------ triangulation runs

\* the confidences of the signals whose results are triangulated
TriConfidences == {0, 50, 80}

TriService(buildPath, name, network, configs) ==
    [ZeroService EXCEPT !.Name = name, !.BuildPath = buildPath, !.Network = network,
                        !.Configs = configs]

TriDockerfile == ConfigRef(<<"d", "o", "c", "k", "e", "r", "f", "i", "l", "e">>, <<"a", "/", "D", "o", "c", "k", "e", "r", "f", "i", "l", "e">>)
TriCompose == ConfigRef(<<"d", "o", "c", "k", "e", "r", "-", "c", "o", "m", "p", "o", "s", "e">>, <<"c", "o", "m", "p", "o", "s", "e", ".", "y", "m", "l">>)

\* the candidate services: siblings at one build path, two whose keys read the
\* same, and an image-only service without a build path
TriServices ==
    {TriService(id[1], id[2], v[1], v[2]) :
        id \in {<<<<"a">>, <<"b", ":", "w">>>>, <<<<"a", ":", "b">>, <<"w">>>>, <<<<"a">>, <<"k">>>>, <<<<>>, <<"d", "b">>>>},
        v \in {<<NetworkPrivate, <<TriDockerfile>>>>, <<NetworkPublic, <<TriCompose>>>>}}
    \cup {TriService(<<>>, <<"d", "b">>, NetworkNone, <<TriCompose, TriCompose>>)}

\* the lists of n services
RECURSIVE TriLists(_)
TriLists(n) ==
    IF n = 0 THEN {<<>>}
    ELSE {Append(l, s) : l \in TriLists(n - 1), s \in TriServices}

\* the results that hold at most n services together, each result non-empty as
\* Discover keeps them
RECURSIVE TriResults(_)
TriResults(n) ==
    {<<>>} \cup
    UNION {{<<signalResult(l, c, "signal")>> \o rest :
               l \in TriLists(k), c \in TriConfidences, rest \in TriResults(n - k)} :
              k \in 1..n}

TriInit ==
    /\ repo = Repo("github", <<".">>, <<>>, 200, <<>>, {})
    /\ filesystem = NewGitHubFS(<<"m">>, <<>>, NotDetected)
    /\ signals = NewSignals
    /\ pc = "off"
    /\ run = 0
    /\ sigIdx = 1
    /\ stack = <<>>
    /\ current = walkItem(<<>>, 0)
    /\ stream = <<>>
    /\ entry = NoEntry
    /\ observing = [s \in {Signals[i] : i \in DOMAIN Signals} |-> 0]
    /\ lastCriticalError = Nil
    /\ results = <<>>
    /\ ret = NoReturn
    /\ env = NoEnv
    /\ hist = NoHist
    /\ \E input \in TriResults(MaxServices) :
          tri = [NoTri EXCEPT !.phase = "input", !.input = input]
    /\ ctx = "live"
    /\ vfs = NoVfs

\* triangulateServices(input)
Triangulate ==
    /\ tri.phase = "input"
    /\ \E output \in triangulateServices(tri.input) :
          tri' = [tri EXCEPT !.phase = "output", !.output = output]
    /\ UNCHANGED <<discoverVars, vfs, env>>

\* the output as results again: one result of one service for each output service
refeed(output, confidence) ==
    [i \in 1..Len(output) |-> signalResult(<<output[i]>>, confidence, "signal")]

\* triangulateServices of the refed output
Refeed ==
    /\ tri.phase = "output"
    /\ \E confidence \in TriConfidences :
          \E again \in triangulateServices(refeed(tri.output, confidence)) :
             tri' = [tri EXCEPT !.phase = "again",
                                !.refed = refeed(tri.output, confidence),
                                !.again = again]
    /\ UNCHANGED <<discoverVars, vfs, env>>

\* triangulateServices(input) once more, on the same input
Retriangulate ==
    /\ tri.phase = "output"
    /\ \E second \in triangulateServices(tri.input) :
          tri' = [tri EXCEPT !.phase = "second", !.second = second]
    /\ UNCHANGED <<discoverVars, vfs, env>>

TriNext ==
    \/ Triangulate
    \/ Retriangulate
    \/ Refeed

TriSpec == TriInit /\ [][TriNext]_vars

\* ------------------------------------------------------------------ properties of the walk

SignalSet == {Signals[i] : i \in DOMAIN Signals}

\* the entries ReadDir yields without error for directory d
Yielded(d) ==
    LET s == ReadDir(filesystem, repo, d)
    IN {s[i].entry : i \in {j \in DOMAIN s : s[j].err = Nil}}

\* the directories one level below those of level that are not ignored
Below(level) ==
    UNION {{Join(d, e.name) : e \in {f \in Yielded(d) :
                                        f.isDir /\ ~shouldIgnoreDirectory(f.name)}} :
              d \in level}

\* the directories of level and those at most n levels below them
RECURSIVE ReachableFrom(_, _)
ReachableFrom(level, n) ==
    IF n = 0 \/ level = {} THEN level ELSE level \cup ReachableFrom(Below(level), n - 1)

\* the directories at most n levels below the walk root that are reachable through
\* directories that are not ignored
ReachableWithin(n) ==
    ReachableFrom(IF shouldIgnoreDirectory(Base(repo.root)) THEN {} ELSE {repo.root}, n)

\* how often x occurs in the sequence s
Count(s, x) == Cardinality({i \in DOMAIN s : s[i] = x})

\* C1: during one Discover run no signal is shown the same entry (parent path and
\* name) twice, and when the run is over every signal has been shown exactly once
\* every entry that ReadDir yields without error for a directory at depth <= 4
\* reachable from the walk root through directories that are not ignored.
C1_ObservedOnce ==
    /\ Cardinality({hist.observed[i] : i \in DOMAIN hist.observed}) = Len(hist.observed)
    /\ pc = "done" =>
          \A d \in ReachableWithin(4) : \A e \in Yielded(d) : \A s \in SignalSet :
             Count(hist.observed, <<s, d, e.name>>) = 1

\* a run on a local tree named by an absolute root is over: the walk read the root
\* and its subdirectory under their absolute names, every signal saw both entries
\* once, and the service of the Dockerfile was returned
AbsoluteRootWalked ==
    /\ pc = "done"
    /\ repo.backend = "local"
    /\ repo.root = <<"/", "w", "/", "d">>
    /\ [i \in DOMAIN hist.readDirs |-> hist.readDirs[i].path] = <<<<"/", "w", "/", "d">>, <<"/", "w", "/", "d", "/", "a", "p", "p">>>>
    /\ \A s \in SignalSet :
          /\ Count(hist.observed, <<s, <<"/", "w", "/", "d">>, <<"a", "p", "p">>>>) = 1
          /\ Count(hist.observed, <<s, <<"/", "w", "/", "d", "/", "a", "p", "p">>, <<"D", "o", "c", "k", "e", "r", "f", "i", "l", "e">>>>) = 1
    /\ ret.err = Nil
    /\ Len(ret.services) = 1

\* the same for a root that climbs out of the working directory and comes back
ClimbingRootWalked ==
    /\ pc = "done"
    /\ repo.backend = "local"
    /\ repo.root = <<".", ".", "/", "d">>
    /\ [i \in DOMAIN hist.readDirs |-> hist.readDirs[i].path] = <<<<".", ".", "/", "d">>, <<".", ".", "/", "d", "/", "a", "p", "p">>>>
    /\ \A s \in SignalSet :
          /\ Count(hist.observed, <<s, <<".", ".", "/", "d">>, <<"a", "p", "p">>>>) = 1
          /\ Count(hist.observed, <<s, <<".", ".", "/", "d", "/", "a", "p", "p">>, <<"D", "o", "c", "k", "e", "r", "f", "i", "l", "e">>>>) = 1
    /\ ret.err = Nil
    /\ Len(ret.services) = 1

\* a run is over in which the signals saw the entries of a directory at depth 4
C1_Witness ==
    /\ pc = "done"
    /\ \A s \in SignalSet : Count(hist.observed, <<s, ChainDir(4), <<"D", "o", "c", "k", "e", "r", "f", "i", "l", "e">>>>) = 1
    /\ Count(hist.observed, <<"helm", <<".">>, <<"d">>>>) = 1

\* C2: for every signal, Reset precedes every ObserveEntry of the run, no two
\* ObserveEntry calls on it are in progress at once, GenerateServices is called at
\* most once and after the last ObserveEntry, and exactly once when the run is over,
\* whether or not the walk recorded errors.
C2_CallOrder ==
    \A s \in SignalSet :
       LET log == hist.log[s]
       IN /\ \A i \in DOMAIN log : log[i] = "ObserveEntry" =>
                \E j \in 1..(i - 1) : log[j] = "Reset"
          /\ observing[s] <= 1
          /\ observing[s] = 1 => \E j \in DOMAIN log : log[j] = "Reset"
          /\ Count(log, "GenerateServices") <= 1
          /\ \A i \in DOMAIN log : log[i] = "GenerateServices" =>
                /\ i = Len(log)
                /\ observing[s] = 0
                /\ pc \in {"generate", "done"}
          /\ pc = "done" => Count(log, "GenerateServices") = 1

\* a run is over in which the walk recorded an error and the signals observed entries
C2_Witness ==
    /\ pc = "done"
    /\ repo.denied # {}
    /\ Len(hist.produced) > 0
    /\ \A s \in SignalSet :
          /\ Count(hist.log[s], "ObserveEntry") > 1
          /\ hist.log[s][Len(hist.log[s])] = "GenerateServices"

\* the paths of the ReadDir calls made by `by`, in order
ReadDirsBy(by) ==
    LET calls == SelectSeq(hist.readDirs, LAMBDA c : c.by = by)
    IN [i \in DOMAIN calls |-> calls[i].path]

AllReadDirs == [i \in DOMAIN hist.readDirs |-> hist.readDirs[i].path]

\* C3 (as amended): the walk calls ReadDir exactly once for each directory it
\* reaches and never twice for one path; the only other ReadDir calls of a run are
\* those of HelmSignal.GenerateServices, each on the templates directory of a chart.
C3_WalkReadsOnce ==
    /\ \A i, j \in DOMAIN ReadDirsBy("walk") :
          ReadDirsBy("walk")[i] = ReadDirsBy("walk")[j] => i = j
    /\ \A i \in DOMAIN hist.readDirs :
          \/ hist.readDirs[i].by = "walk"
          \/ /\ hist.readDirs[i].by = "helm"
             /\ \E k \in DOMAIN signals.helm.configPaths :
                   hist.readDirs[i].path =
                      Join(signals.helm.configDirs[signals.helm.configPaths[k]],
                           <<"t", "e", "m", "p", "l", "a", "t", "e", "s">>)
    /\ pc = "done" =>
          \A d \in ReachableWithin(4) : Count(ReadDirsBy("walk"), d) = 1

\* a run is over in which the walk read a directory below the root and
\* HelmSignal.GenerateServices read a templates directory
C3_Witness ==
    /\ pc = "done"
    /\ Count(ReadDirsBy("walk"), <<"c", "/", "t", "e", "m", "p", "l", "a", "t", "e", "s">>) = 1
    /\ Count(ReadDirsBy("helm"), <<"c", "/", "t", "e", "m", "p", "l", "a", "t", "e", "s">>) = 1

\* C3 (as stated): over the whole run, GenerateServices included, ReadDir is called
\* exactly once for each directory the walk reaches and never twice for one path.
C3_AsStated ==
    /\ \A i, j \in DOMAIN AllReadDirs : AllReadDirs[i] = AllReadDirs[j] => i = j
    /\ pc = "done" => \A d \in ReachableWithin(4) : Count(AllReadDirs, d) = 1

\* ------------------------------------------------------------------ properties of the result

\* the GenerateServices calls of the run that returned services and no error
ReturnedServices ==
    SelectSeq(hist.generated, LAMBDA g : g.err = Nil /\ Len(g.services) > 0)

\* the results those calls amount to
ReturnedResults ==
    [i \in DOMAIN ReturnedServices |->
        signalResult(ReturnedServices[i].services,
                     Confidence(ReturnedServices[i].signal),
                     ReturnedServices[i].signal)]

\* the errors of the run that were recorded as critical, in order
RecordedCritical == SelectSeq(hist.produced, isCriticalError)

\* C4: Discover returns an error exactly when no signal returned services and a
\* critical error was recorded, and the error wraps the last critical error
\* recorded; when a signal returned services it returns the triangulated list and
\* no error, whatever was recorded; without services and without a critical error
\* it returns an empty list and no error.
C4_ErrorOnlyWhenEmpty ==
    pc = "done" =>
       /\ ret.returned
       /\ ret.err # Nil <=> (Len(ReturnedServices) = 0 /\ Len(RecordedCritical) > 0)
       /\ ret.err # Nil =>
             /\ ret.services = <<>>
             /\ HasPrefix(ret.err.msg, <<"s", "e", "r", "v", "i", "c", "e", " ", "d", "i", "s", "c", "o", "v", "e", "r", "y", " ", "f", "a", "i", "l", "e", "d">>)
             /\ HasSuffix(ret.err.msg, RecordedCritical[Len(RecordedCritical)].msg)
             /\ ret.err.kind = RecordedCritical[Len(RecordedCritical)].kind
       /\ Len(ReturnedServices) > 0 =>
             /\ ret.err = Nil
             /\ ret.services \in triangulateServices(ReturnedResults)
             /\ Len(ret.services) > 0
       /\ (Len(ReturnedServices) = 0 /\ Len(RecordedCritical) = 0) =>
             ret.services = <<>> /\ ret.err = Nil

\* Discover has returned services although a critical error was recorded
C4_Witness ==
    /\ pc = "done"
    /\ Len(RecordedCritical) > 0
    /\ Len(ReturnedServices) > 0
    /\ ret.err = Nil
    /\ Len(ret.services) > 0

\* the classes of failure the orchestrator is to track
CriticalKinds == {"Denied", "RateLimited", "AuthFailed", "Network"}

\* C5: lastCriticalError is the last error of the run so far that is a Denied,
\* RateLimited, AuthFailed or Network error (nil when there was none); a NotFound
\* error is never recorded, whatever the path it names.
C5_CriticalByKind ==
    LET critical == SelectSeq(hist.produced, LAMBDA e : e.kind \in CriticalKinds)
    IN /\ lastCriticalError = IF Len(critical) = 0 THEN Nil ELSE critical[Len(critical)]
       /\ lastCriticalError.kind # "NotFound"

\* ------------------------------------------------------------------ properties of triangulation

Triangulated == tri.phase \in {"output", "again"}

\* the candidates of the triangulated input, in order
Candidates == allCandidates(tri.input)

\* the positions of the services of list l with this build path and name
Positions(l, buildPath, name) ==
    {i \in DOMAIN l : l[i].BuildPath = buildPath /\ l[i].Name = name}

\* C6: no two services of the output with a non-empty build path have the same
\* build path and name, and candidates with one build path and different names
\* each remain a service of the output.
C6_DistinctPathAndName ==
    Triangulated =>
       /\ \A i, j \in DOMAIN tri.output :
             (/\ tri.output[i].BuildPath # <<>>
              /\ tri.output[i].BuildPath = tri.output[j].BuildPath
              /\ tri.output[i].Name = tri.output[j].Name) => i = j
       /\ \A x, y \in DOMAIN Candidates :
             LET a == Candidates[x].service
                 b == Candidates[y].service
             IN (a.BuildPath # <<>> /\ a.BuildPath = b.BuildPath /\ a.Name # b.Name) =>
                   /\ Positions(tri.output, a.BuildPath, a.Name) # {}
                   /\ Positions(tri.output, b.BuildPath, b.Name) # {}

ConfigSet(configs) == {configs[i] : i \in DOMAIN configs}

\* the fields of a service other than its configs
Fields(service) == [service EXCEPT !.Configs = <<>>]

\* C8: for every group of candidates with one non-empty build path and one name the
\* output has exactly one service of that build path and name; its fields are those
\* of the first candidate of the group with the group's highest confidence, for
\* confidences from 0 to 100, and its configs are the configs of all the group.
C8_BestOfGroup ==
    Triangulated =>
       \A x \in DOMAIN Candidates :
          LET s == Candidates[x].service
              group == SelectSeq(Candidates, LAMBDA c :
                          c.service.BuildPath = s.BuildPath /\ c.service.Name = s.Name)
              highest == Max({group[i].confidence : i \in DOMAIN group})
              best == group[CHOOSE i \in DOMAIN group :
                         /\ group[i].confidence = highest
                         /\ \A j \in 1..(i - 1) : group[j].confidence # highest]
              at == Positions(tri.output, s.BuildPath, s.Name)
          IN s.BuildPath # <<>> =>
                /\ Cardinality(at) = 1
                /\ \A i \in at :
                      /\ Fields(tri.output[i]) = Fields(best.service)
                      /\ ConfigSet(tri.output[i].Configs) =
                            UNION {ConfigSet(group[k].service.Configs) : k \in DOMAIN group}

NonEmptyConfigs(service) == Len(service.Configs) > 0

UniqueConfigs(service) ==
    \A i, j \in DOMAIN service.Configs :
       (/\ service.Configs[i].Type = service.Configs[j].Type
        /\ service.Configs[i].Path = service.Configs[j].Path) => i = j

\* C9 (as amended): when every candidate has a non-empty configs list without two
\* entries of the same type and path, every service of the output, merged or passed
\* through, has a non-empty configs list without two entries of the same type and path.
C9_ConfigsOfValidCandidates ==
    (/\ Triangulated
     /\ \A x \in DOMAIN Candidates :
           NonEmptyConfigs(Candidates[x].service) /\ UniqueConfigs(Candidates[x].service)) =>
       \A i \in DOMAIN tri.output :
          NonEmptyConfigs(tri.output[i]) /\ UniqueConfigs(tri.output[i])

\* two candidates with the same config were merged into one service and
\* a service without a build path was passed through
C9_Witness ==
    /\ tri.phase = "output"
    /\ \A x \in DOMAIN Candidates : UniqueConfigs(Candidates[x].service)
    /\ \E x, y \in DOMAIN Candidates :
          /\ x # y
          /\ Candidates[x].service.BuildPath # <<>>
          /\ Candidates[x].service = Candidates[y].service
          /\ tri.output = <<Candidates[x].service>>

\* C9 (as stated): when every candidate has a non-empty configs list, every service
\* of the output has a non-empty configs list without two entries of the same type
\* and path.
C9_AsStated ==
    (/\ Triangulated
     /\ \A x \in DOMAIN Candidates : NonEmptyConfigs(Candidates[x].service)) =>
       \A i \in DOMAIN tri.output :
          NonEmptyConfigs(tri.output[i]) /\ UniqueConfigs(tri.output[i])

\* C10: triangulating the output of a triangulation again, each of its services a
\* result of its own, returns the same list.
C10_Idempotent == tri.phase = "again" => tri.again = tri.output

\* ------------------------------------------------------------------ properties of a run's merge

\* the candidates the signals of the run returned, in order
RunCandidates == allCandidates(ReturnedResults)

\* the candidates of the run with this build path
AtBuildPath(buildPath) ==
    SelectSeq(RunCandidates, LAMBDA c : c.service.BuildPath = buildPath)

\* C7: for every non-empty build path whose highest candidate confidence is at least
\* 80, the services Discover returns for that build path are one for each name of
\* its candidates of confidence 80 or more and no other, and every config of a
\* candidate of lower confidence at that build path is among the configs of the
\* service of the first such name, whatever the name of that candidate.
C7_ExplicitDominant ==
    (pc = "done" /\ ret.err = Nil) =>
       \A x \in DOMAIN RunCandidates :
          LET buildPath == RunCandidates[x].service.BuildPath
              group == AtBuildPath(buildPath)
              explicit == SelectSeq(group, LAMBDA c : c.confidence >= 80)
              generic == SelectSeq(group, LAMBDA c : c.confidence < 80)
              explicitNames == {explicit[i].service.Name : i \in DOMAIN explicit}
          IN (buildPath # <<>> /\ Len(explicit) > 0) =>
                /\ \A i \in DOMAIN ret.services :
                      ret.services[i].BuildPath = buildPath =>
                         ret.services[i].Name \in explicitNames
                /\ \A name \in explicitNames :
                      Cardinality(Positions(ret.services, buildPath, name)) = 1
                /\ \A g \in DOMAIN generic :
                      \A i \in Positions(ret.services, buildPath, explicit[1].service.Name) :
                         ConfigSet(generic[g].service.Configs) \subseteq
                            ConfigSet(ret.services[i].Configs)

\* ------------------------------------------------------------------ further properties

\* C11: two calls of triangulateServices on the same list of results return the same
\* services in the same order.
C11_Deterministic == tri.phase = "second" => tri.second = tri.output

\* every service the signals generated in this run
GeneratedServices ==
    UNION {{hist.generated[i].services[k] : k \in DOMAIN hist.generated[i].services} :
              i \in DOMAIN hist.generated}

\* from_image comes with an image, from_source with a build path
BuildIsBacked(service) ==
    /\ service.Build = BuildFromImage => service.Image # <<>>
    /\ service.Build = BuildFromSource => service.BuildPath # <<>>

\* C12: every service a signal's GenerateServices produced, and every service
\* Discover returned, has an image when its build is from_image and a build path
\* when its build is from_source.
C12_BuildIsBacked ==
    /\ \A s \in GeneratedServices : BuildIsBacked(s)
    /\ \A i \in DOMAIN ret.services : BuildIsBacked(ret.services[i])


\* how many directories lie between the walk root and path p
Depth(p) ==
    IF p = repo.root THEN 0
    ELSE Len(Split(p)) - (IF repo.root = <<".">> THEN 0 ELSE Len(Split(repo.root)))

WalkReads ==
    LET reads == ReadDirsBy("walk")
    IN {reads[i] : i \in DOMAIN reads}

\* C13: the walk reads no directory deeper than 4 below its root and shows the
\* signals no entry of a directory deeper than 4, and when the run is over the
\* signals have seen every entry of every directory of depth <= 4 that is
\* reachable through directories that are not ignored.
C13_DepthCap ==
    /\ \A d \in WalkReads : Depth(d) <= 4
    /\ \A i \in DOMAIN hist.observed : Depth(hist.observed[i][2]) <= 4
    /\ pc = "done" =>
          \A d \in ReachableWithin(4) : \A e \in Yielded(d) : \A s \in SignalSet :
             Count(hist.observed, <<s, d, e.name>>) >= 1

\* a run is over on a tree with a directory at depth 5: its parent's entries were
\* observed, the directory itself was not read
C13_Witness ==
    /\ pc = "done"
    /\ \E i \in DOMAIN repo.files : repo.files[i].name = ChainDir(5) /\ repo.files[i].isDir
    /\ Count(hist.observed, <<"compose", ChainDir(4), <<"d">>>>) = 1
    /\ ChainDir(4) \in WalkReads
    /\ ChainDir(5) \notin WalkReads

\* the directory names the ignore rule is said to skip
SaidToBeSkipped(name) ==
    /\ \/ \E i \in DOMAIN excludePatterns : EqualFold(name, excludePatterns[i])
       \/ HasPrefix(name, <<"_">>)
       \/ HasPrefix(name, <<".">>)
    /\ name \notin {<<".", "d", "o">>, <<".", "v", "e", "r", "c", "e", "l">>}

\* C14: a directory found by the walk above the depth cap is not descended exactly
\* when its name is on the exclude list or starts with '_' or '.', the names .do
\* and .vercel excepted; the entries of a .do and of a .vercel directory are observed.
C14_IgnoreRule ==
    pc = "done" =>
       \A d \in WalkReads : \A e \in Yielded(d) :
          (e.isDir /\ Depth(d) < 4) =>
             /\ Join(d, e.name) \in WalkReads <=> ~SaidToBeSkipped(e.name)
             /\ e.name \in {<<".", "d", "o">>, <<".", "v", "e", "r", "c", "e", "l">>} =>
                   \A f \in Yielded(Join(d, e.name)) : \A s \in SignalSet :
                      Count(hist.observed, <<s, Join(d, e.name), f.name>>) = 1

\* the subdirectories among the entries ReadDir yields for item.path, as stack
\* items, in the order they are yielded
RECURSIVE Subdirs(_, _)
Subdirs(item, s) ==
    IF s = <<>> THEN <<>>
    ELSE IF Head(s).err = Nil /\ Head(s).entry.isDir
         THEN <<walkItem(Join(item.path, Head(s).entry.name), item.depth + 1)>>
                 \o Subdirs(item, Tail(s))
         ELSE Subdirs(item, Tail(s))

\* the entries ReadDir yields without error for directory d, as <<d, name>> in the
\* order they are yielded
EntriesOf(d) ==
    LET s == SelectSeq(ReadDir(filesystem, repo, d), LAMBDA x : x.err = Nil)
    IN [i \in DOMAIN s |-> <<d, s[i].entry.name>>]

\* the directories read when the pending items are taken last-pushed-first
RECURSIVE LifoOrder(_)
LifoOrder(pending) ==
    IF pending = <<>> THEN <<>>
    ELSE LET top == pending[Len(pending)]
             rest == SubSeq(pending, 1, Len(pending) - 1)
         IN IF top.depth > 4 \/ shouldIgnoreDirectory(Base(top.path))
            THEN LifoOrder(rest)
            ELSE <<top.path>> \o
                 LifoOrder(rest \o Subdirs(top, ReadDir(filesystem, repo, top.path)))

RECURSIVE Flatten(_)
Flatten(ss) == IF ss = <<>> THEN <<>> ELSE Head(ss) \o Flatten(Tail(ss))

\* the entries of the directories in dirs, directory by directory
EntryOrder(dirs) == Flatten([i \in DOMAIN dirs |-> EntriesOf(dirs[i])])

IsPrefixOf(s, t) == Len(s) <= Len(t) /\ s = SubSeq(t, 1, Len(s))

IsUnder(p, d) ==
    /\ p # d
    /\ \/ d = repo.root
       \/ HasPrefix(p, d \o <<"/">>)

\* C15: the k-th entry the walk produces is shown to the signals in registration
\* order before the (k+1)-th is shown to any of them; the entries of a directory are
\* all observed before any entry of a directory beneath it; and the walk reads the
\* directories, and produces their entries, in last-pushed-first order.
C15_ObserveOrder ==
    LET n == Len(Signals)
        expected == LifoOrder(<<walkItem(repo.root, 0)>>)
    IN /\ \A i \in DOMAIN hist.observed :
             /\ ((i - 1) \div n) + 1 \in DOMAIN hist.yielded
             /\ hist.observed[i] = <<Signals[((i - 1) % n) + 1]>> \o
                                      hist.yielded[((i - 1) \div n) + 1]
       /\ \A i, j \in DOMAIN hist.yielded :
             IsUnder(hist.yielded[j][1], hist.yielded[i][1]) => i < j
       /\ IsPrefixOf(ReadDirsBy("walk"), expected)
       /\ IsPrefixOf(hist.yielded, EntryOrder(expected))
       /\ pc = "done" =>
             /\ ReadDirsBy("walk") = expected
             /\ hist.yielded = EntryOrder(expected)
             /\ Len(hist.observed) = n * Len(hist.yielded)

\* a run is over in which directory b, pushed after its sibling a, was read before
\* a, and b's subdirectory b/c before a as well
C15_Witness ==
    /\ pc = "done"
    /\ ReadDirsBy("walk") = <<<<".">>, <<"b">>, <<"b", "/", "c">>, <<"a">>>>
    /\ Len(hist.observed) = 6 * Len(Signals)

\* C16: once the context is canceled, no signal's ObserveEntry or GenerateServices
\* is invoked any more, and Discover returns a Canceled error.
C16_Canceled ==
    ctx = "canceled" =>
       /\ Len(hist.observed) = hist.cancel.observed
       /\ Len(hist.generated) = hist.cancel.generated
       /\ pc = "done" => ret.err # Nil /\ ret.err.kind = "Canceled"

\* ------------------------------------------------------------------ archive calls

\* the token values of the instances
Tokens == {<<>>, <<"g", "h", "p", "_", "A">>, <<"g", "h", "p", "_", "B">>}

\* the ref of the URI (empty for github://o/r) and what the detection of the
\* default branch answers
Refs == {<<>>, <<"m">>}
Detections == {NotDetected, DetectedBranch(<<"d", "e", "v">>)}

VfsFiles ==
    <<File(<<"a", "p", "p">>, TRUE, Other), File(<<"a", "p", "p", "/", "D", "o", "c", "k", "e", "r", "f", "i", "l", "e">>, FALSE, Other),
      File(<<"a", "p", "p", "/", "s", "u", "b">>, TRUE, Other), File(<<"a", "p", "p", "/", "s", "u", "b", "/", "x">>, FALSE, Other),
      File(<<"c", "o", "m", "p", "o", "s", "e", ".", "y", "a", "m", "l">>, FALSE, Other)>>

VfsRepos ==
    {Repo("github", <<".">>, <<>>, 200, VfsFiles, {}),
     Repo("github", <<".">>, <<"a", "p", "p">>, 200, VfsFiles, {}),
     Repo("github", <<".">>, <<>>, 403, VfsFiles, {}),
     Repo("github", <<".">>, <<>>, 429, VfsFiles, {}),
     Repo("github", <<".">>, <<>>, 404, VfsFiles, {}),
     Repo("github", <<".">>, <<>>, 500, VfsFiles, {})}
    \cup {Faulty(Repo("github", <<".">>, <<>>, 200, VfsFiles, {}), fault) : fault \in Faults}

VfsPaths ==
    {<<".">>, <<"a", "p", "p">>, <<"/", "a", "p", "p">>, <<"/", "s", "u", "b">>, <<"a", "p", "p", "/", ".", ".", "/", "a", "p", "p">>, <<".", ".", "/", "x">>, <<".", ".">>, <<"s", "u", "b", "/", ".", ".">>,
     <<"c", "o", "m", "p", "o", "s", "e", ".", "y", "a", "m", "l">>, <<"/", "c", "o", "m", "p", "o", "s", "e", ".", "y", "a", "m", "l">>, <<"a", "p", "p", "/", "D", "o", "c", "k", "e", "r", "f", "i", "l", "e">>, <<"/", "D", "o", "c", "k", "e", "r", "f", "i", "l", "e">>,
     <<"a", "p", "p", "/", ".", ".", "/", "c", "o", "m", "p", "o", "s", "e", ".", "y", "a", "m", "l">>, <<"n", "o", "p", "e">>}

WalkRoots == {<<".">>, <<"a", "p", "p">>, <<"n", "o", "p", "e">>}
WalkSkips == {{}, {<<"a", "p", "p">>}, {<<"s", "u", "b">>}, {<<"a", "p", "p", "/", "s", "u", "b">>}, {<<"c", "o", "m", "p", "o", "s", "e", ".", "y", "a", "m", "l">>}}

NoCall == [op |-> "none"]

\* two GitHubFS instances on the same archive that differ at most in the token;
\* every call is made on both
VfsInit ==
    /\ repo \in VfsRepos
    /\ filesystem = NewGitHubFS(<<"m">>, <<>>, NotDetected)
    /\ signals = NewSignals
    /\ pc = "off"
    /\ run = 0
    /\ sigIdx = 1
    /\ stack = <<>>
    /\ current = walkItem(<<>>, 0)
    /\ stream = <<>>
    /\ entry = NoEntry
    /\ observing = [s \in {Signals[i] : i \in DOMAIN Signals} |-> 0]
    /\ lastCriticalError = Nil
    /\ results = <<>>
    /\ ret = NoReturn
    /\ env = NoEnv
    /\ hist = NoHist
    /\ tri = NoTri
    /\ ctx = "live"
    /\ \E t1, t2 \in Tokens, ref \in Refs, d1, d2 \in Detections :
          /\ t1 = t2 => d1 = d2
          /\ vfs = [phase |-> "calls", gfs |-> NewGitHubFS(ref, t1, d1),
                    twin |-> NewGitHubFS(ref, t2, d2), call |-> NoCall]

\* gfs.ReadDir(path), the iterator run to its end
VfsReadDir ==
    /\ vfs.phase = "calls"
    /\ \E path \in VfsPaths :
          LET gfs == ensureInitialized(vfs.gfs, repo)
              twin == ensureInitialized(vfs.twin, repo)
          IN vfs' = [vfs EXCEPT !.gfs = gfs, !.twin = twin,
                                !.call = [op |-> "ReadDir", path |-> path,
                                          out |-> GitHubFS_ReadDir(gfs, repo, path),
                                          twinOut |-> GitHubFS_ReadDir(twin, repo, path)]]
    /\ UNCHANGED <<discoverVars, tri, env>>

\* gfs.ReadFile(path)
VfsReadFile ==
    /\ vfs.phase = "calls"
    /\ \E path \in VfsPaths :
          LET gfs == ensureInitialized(vfs.gfs, repo)
              twin == ensureInitialized(vfs.twin, repo)
          IN vfs' = [vfs EXCEPT !.gfs = gfs, !.twin = twin,
                                !.call = [op |-> "ReadFile", path |-> path,
                                          out |-> GitHubFS_ReadFile(gfs, repo, path),
                                          twinOut |-> GitHubFS_ReadFile(twin, repo, path)]]
    /\ UNCHANGED <<discoverVars, tri, env>>

\* gfs.Walk(root, fn)
VfsWalk ==
    /\ vfs.phase = "calls"
    /\ \E root \in WalkRoots, skip \in WalkSkips :
          LET gfs == ensureInitialized(vfs.gfs, repo)
              twin == ensureInitialized(vfs.twin, repo)
          IN vfs' = [vfs EXCEPT !.gfs = gfs, !.twin = twin,
                                !.call = [op |-> "Walk", path |-> root, skip |-> skip,
                                          out |-> GitHubFS_Walk(gfs, repo, root, skip),
                                          twinOut |-> GitHubFS_Walk(twin, repo, root, skip)]]
    /\ UNCHANGED <<discoverVars, tri, env>>

\* gfs.Cleanup()
VfsCleanup ==
    /\ vfs.phase = "calls"
    /\ \E out \in {GitHubFS_Cleanup(vfs.gfs)}, twinOut \in {GitHubFS_Cleanup(vfs.twin)} :
          vfs' = [vfs EXCEPT !.gfs = out.gfs, !.twin = twinOut.gfs,
                                !.call = [op |-> "Cleanup", path |-> <<>>,
                                          out |-> out.err, twinOut |-> twinOut.err]]
    /\ UNCHANGED <<discoverVars, tri, env>>

VfsNext == VfsReadDir \/ VfsReadFile \/ VfsWalk \/ VfsCleanup

VfsSpec == VfsInit /\ [][VfsNext]_vars

\* the path has a segment ".."
HasDotDotSegment(path) == \E i \in DOMAIN Split(path) : Split(path)[i] = <<".", ".">>

\* what a ReadDir or ReadFile call made known of the archive: the entries listed,
\* the content opened
Disclosed(call) ==
    IF call.op = "ReadDir"
    THEN {call.out[i].entry.name : i \in {j \in DOMAIN call.out : call.out[j].err = Nil}}
    ELSE IF call.out.err = Nil THEN {call.out.content} ELSE {}

CallFailed(call) ==
    IF call.op = "ReadDir"
    THEN \E i \in DOMAIN call.out : call.out[i].err # Nil
    ELSE call.out.err # Nil

\* C18: ReadFile and ReadDir of the archive filesystem return an error, and list or
\* open nothing, for every path with a ".." segment and every path beginning with "/".
C18_PathSafety ==
    (/\ vfs.phase = "calls"
     /\ vfs.call.op \in {"ReadDir", "ReadFile"}
     /\ (HasDotDotSegment(vfs.call.path) \/ HasPrefix(vfs.call.path, <<"/">>)))
    => (CallFailed(vfs.call) /\ Disclosed(vfs.call) = {})

\* C19: the error of a failed archive download does not depend on the token: it is
\* the same for any two instances that differ only in the token.
C19_AsStated ==
    (vfs.phase = "calls" /\ vfs.gfs.initialized /\ vfs.twin.initialized)
    => vfs.gfs.initErr = vfs.twin.initErr

\* the error of a failed archive download never contains the token itself
TokenNotInError ==
    (vfs.phase = "calls" /\ vfs.gfs.initialized /\ vfs.twin.initialized)
    => /\ vfs.gfs.token # <<>> => ~Contains(vfs.gfs.initErr.msg, vfs.gfs.token)
       /\ vfs.twin.token # <<>> => ~Contains(vfs.twin.initErr.msg, vfs.twin.token)

\* two instances with different tokens, both set, on the same URI and the same
\* answers of the download get the same error
SameWithAnyToken ==
    (/\ vfs.phase = "calls" /\ vfs.gfs.initialized /\ vfs.twin.initialized
     /\ vfs.gfs.token # <<>> /\ vfs.twin.token # <<>>)
    => vfs.gfs.initErr = vfs.twin.initErr

\* the paths Walk(dir, fn) is to visit when fn answers SkipDir for the paths in
\* skip: dir, and what lies beneath it down to n levels, outside skipped directories
RECURSIVE Visible(_, _, _)
Visible(dir, skip, n) ==
    LET ys == GitHubFS_ReadDir(vfs.gfs, repo, dir)
        entries == {ys[i].entry : i \in {j \in DOMAIN ys : ys[j].err = Nil}}
    IN {dir} \cup
       IF dir \in skip \/ n = 0 THEN {}
       ELSE UNION {IF e.isDir THEN Visible(Join(dir, e.name), skip, n - 1)
                   ELSE {Join(dir, e.name)} : e \in entries}

WalkedPaths == [i \in DOMAIN vfs.call.out.calls |-> vfs.call.out.calls[i].path]

\* C20: Walk(root, fn) on a directory of the archive calls fn exactly once for root
\* and for each file and directory beneath it, a directory before its contents; of a
\* directory for which fn answers SkipDir nothing beneath is visited, and the walk
\* goes on.
C20_WalkOnce ==
    (/\ vfs.phase = "calls"
     /\ vfs.call.op = "Walk"
     /\ vfs.gfs.initErr = Nil
     /\ \A i \in DOMAIN GitHubFS_ReadDir(vfs.gfs, repo, vfs.call.path) :
           GitHubFS_ReadDir(vfs.gfs, repo, vfs.call.path)[i].err = Nil
     /\ \A s \in vfs.call.skip :
           GitHubFS_ReadFile([vfs.gfs EXCEPT !.closed = FALSE], repo, s).err # Nil)
    => /\ vfs.call.out.err = Nil
       /\ \A p \in Visible(vfs.call.path, vfs.call.skip, 4) : Count(WalkedPaths, p) = 1
       /\ \A i \in DOMAIN WalkedPaths : WalkedPaths[i] \in Visible(vfs.call.path, vfs.call.skip, 4)
       /\ \A i, j \in DOMAIN WalkedPaths :
             (WalkedPaths[j] # WalkedPaths[i] /\ vfs.call.path # WalkedPaths[j]
              /\ (WalkedPaths[i] = vfs.call.path
                  \/ HasPrefix(WalkedPaths[j], WalkedPaths[i] \o <<"/">>)))
             => i < j

\* ------------------------------------------------------------------ concurrent calls

\* how many goroutines call the one GitHubFS
MaxCallers == 2

\* how many calls they make together
MaxCalls == 3

Callers == 1..MaxCallers

\* the shared instance has no token: it asks codeload itself and is not redirected
OnceRepos ==
    {Repo("github", <<".">>, <<>>, 200, VfsFiles, {}),
     Repo("github", <<".">>, <<>>, 403, VfsFiles, {})}
    \cup {Faulty(Repo("github", <<".">>, <<>>, 200, VfsFiles, {}), fault) :
             fault \in Faults \ {"redirect"}}

NoCaller == [pc |-> "idle", op |-> "none"]

\* one GitHubFS shared by the callers: gfs.initialized is the done flag of gfs.once,
\* mutex the caller that holds the mutex of gfs.once (0: nobody), zipReader whether
\* gfs.zipReader is set, err the error downloadAndIndex is about to return
OnceInit ==
    /\ repo \in OnceRepos
    /\ filesystem = NewGitHubFS(<<"m">>, <<>>, NotDetected)
    /\ signals = NewSignals
    /\ pc = "off"
    /\ run = 0
    /\ sigIdx = 1
    /\ stack = <<>>
    /\ current = walkItem(<<>>, 0)
    /\ stream = <<>>
    /\ entry = NoEntry
    /\ observing = [s \in {Signals[i] : i \in DOMAIN Signals} |-> 0]
    /\ lastCriticalError = Nil
    /\ results = <<>>
    /\ ret = NoReturn
    /\ env = NoEnv
    /\ hist = NoHist
    /\ tri = NoTri
    /\ ctx = "live"
    /\ vfs = [phase |-> "once", gfs |-> NewGitHubFS(<<"m">>, <<>>, NotDetected), mutex |-> 0, zipReader |-> FALSE,
              err |-> Nil, callers |-> [c \in Callers |-> NoCaller], calls |-> 0,
              downloads |-> 0, waited |-> FALSE, seen |-> {}, early |-> FALSE,
              closes |-> {},
              outs |-> [op \in {"ReadFile", "ReadDir", "Walk"} |-> {}]]

\* a goroutine calls ReadFile, ReadDir or Walk: it stands before gfs.once.Do
OnceCall(c) ==
    /\ vfs.phase = "once"
    /\ vfs.callers[c].pc = "idle"
    /\ vfs.calls < MaxCalls
    /\ \E op \in {"ReadFile", "ReadDir", "Walk"} :
          vfs' = [vfs EXCEPT !.callers[c] = [pc |-> "do", op |-> op], !.calls = @ + 1]
    /\ UNCHANGED <<discoverVars, tri, env>>

\* once.Do: the done flag is loaded; set, Do returns, else doSlow goes for the mutex
OnceLoad(c) ==
    /\ vfs.phase = "once"
    /\ vfs.callers[c].pc = "do"
    /\ vfs' = [vfs EXCEPT !.callers[c].pc = IF vfs.gfs.initialized THEN "return" ELSE "lock",
                          !.waited = @ \/ (~vfs.gfs.initialized /\ vfs.mutex # 0)]
    /\ UNCHANGED <<discoverVars, tri, env>>

needsInitUnchecked(gfs) == TRUE

\* doSlow, under the mutex: if o.done.Load() == 0
needsInit(gfs) == ~gfs.initialized

\* doSlow: o.m.Lock(), then the second look at the done flag
OnceLock(c) ==
    /\ vfs.phase = "once"
    /\ vfs.callers[c].pc = "lock"
    /\ vfs.mutex = 0
    /\ vfs' = [vfs EXCEPT !.mutex = c,
                          !.callers[c].pc = IF needsInit(vfs.gfs) THEN "download"
                                            ELSE "unlock"]
    /\ UNCHANGED <<discoverVars, tri, env>>

\* downloadAndIndex: os.CreateTemp, downloadZipball and zip.OpenReader; downloads
\* counts the runs of downloadAndIndex
OnceDownload(c) ==
    /\ vfs.phase = "once"
    /\ vfs.callers[c].pc = "download"
    /\ \E err \in {downloadAndIndex(vfs.gfs, repo)} :
          vfs' = [vfs EXCEPT !.downloads = @ + 1,
                             !.err = err,
                             !.zipReader = (err = Nil),
                             !.callers[c].pc = IF err # Nil THEN "store" ELSE "index"]
    /\ UNCHANGED <<discoverVars, tri, env>>

\* downloadAndIndex: findRepoPrefix and buildPathIndex
OnceIndex(c) ==
    /\ vfs.phase = "once"
    /\ vfs.callers[c].pc = "index"
    /\ vfs' = [vfs EXCEPT !.gfs.pathIndex = buildPathIndex(repo.files),
                          !.callers[c].pc = "store"]
    /\ UNCHANGED <<discoverVars, tri, env>>

\* gfs.initErr = gfs.downloadAndIndex(), then the deferred o.done.Store(1)
OnceStore(c) ==
    /\ vfs.phase = "once"
    /\ vfs.callers[c].pc = "store"
    /\ vfs' = [vfs EXCEPT !.gfs.initErr = vfs.err, !.gfs.initialized = TRUE,
                          !.callers[c].pc = "unlock"]
    /\ UNCHANGED <<discoverVars, tri, env>>

\* the deferred o.m.Unlock()
OnceUnlock(c) ==
    /\ vfs.phase = "once"
    /\ vfs.callers[c].pc = "unlock"
    /\ vfs.mutex = c
    /\ vfs' = [vfs EXCEPT !.mutex = 0, !.callers[c].pc = "return"]
    /\ UNCHANGED <<discoverVars, tri, env>>

\* return gfs.initErr: with an error the call is over
OnceReturn(c) ==
    /\ vfs.phase = "once"
    /\ vfs.callers[c].pc = "return"
    /\ vfs' = [vfs EXCEPT !.seen = @ \cup {vfs.gfs.initErr},
                          !.callers[c] = IF vfs.gfs.initErr # Nil THEN NoCaller
                                         ELSE [@ EXCEPT !.pc = "read"]]
    /\ UNCHANGED <<discoverVars, tri, env>>

\* the call goes on to gfs.zipReader (ReadFile, up to zipReader.Open) or to
\* gfs.pathIndex (ReadDir, Walk). A file that could be opened is read in a later
\* step, OnceReadAll
OnceRead(c) ==
    /\ vfs.phase = "once"
    /\ vfs.callers[c].pc = "read"
    /\ \E op \in {vfs.callers[c].op} :
          \E out \in {IF op = "ReadFile"
                       THEN IF vfs.zipReader
                            THEN GitHubFS_ReadFile(vfs.gfs, repo, <<"c", "o", "m", "p", "o", "s", "e", ".", "y", "a", "m", "l">>)
                            ELSE [content |-> [kind |-> "none"],
                                  err |-> Error("Panic", <<"n", "i", "l", " ", "p", "o", "i", "n", "t", "e", "r", " ", "d", "e", "r", "e", "f", "e", "r", "e", "n", "c", "e">>)]
                       ELSE IF op = "ReadDir" THEN GitHubFS_ReadDir(vfs.gfs, repo, <<".">>)
                       ELSE GitHubFS_Walk(vfs.gfs, repo, <<".">>, {})} :
             IF op = "ReadFile" /\ vfs.zipReader /\ out.err = Nil
             THEN vfs' = [vfs EXCEPT !.early = @ \/ ~vfs.gfs.initialized,
                                     !.callers[c].pc = "readAll"]
             ELSE vfs' = [vfs EXCEPT !.outs[op] = @ \cup {out},
                                     !.early = @ \/ ~vfs.gfs.initialized,
                                     !.callers[c] = NoCaller]
    /\ UNCHANGED <<discoverVars, tri, env>>

\* what io.ReadAll returns when the archive is closed under the open file: a
\* prefix of the content (the bytes read before, none or some) and the error of
\* the read that failed
ClosedWhileReading ==
    [content |-> [kind |-> "prefix"],
     err |-> Error("Closed", <<"r", "e", "a", "d", " ">> \o tempFileName \o <<":", " ", "f", "i", "l", "e", " ", "a", "l", "r", "e", "a", "d", "y", " ", "c", "l", "o", "s", "e", "d">>)]

\* ReadFile: io.ReadAll on the file that zipReader.Open returned. Cleanup may have
\* closed the archive since the file was opened
OnceReadAll(c) ==
    /\ vfs.phase = "once"
    /\ vfs.callers[c].pc = "readAll"
    /\ \E out \in {IF vfs.gfs.closed THEN ClosedWhileReading
                     ELSE GitHubFS_ReadFile(vfs.gfs, repo, <<"c", "o", "m", "p", "o", "s", "e", ".", "y", "a", "m", "l">>)} :
          vfs' = [vfs EXCEPT !.outs["ReadFile"] = @ \cup {out},
                             !.callers[c] = NoCaller]
    /\ UNCHANGED <<discoverVars, tri, env>>

\* gfs.Cleanup(), called by the owner of the GitHubFS at any time: it looks at
\* gfs.zipReader without going through gfs.once, so while the initialization is
\* under way the read races with the write of downloadAndIndex and finds the
\* field set or not
OnceCleanup ==
    /\ vfs.phase = "once"
    /\ \E isSet \in (IF ~vfs.zipReader THEN {FALSE}
                      ELSE IF vfs.gfs.initialized THEN {TRUE}
                      ELSE {TRUE, FALSE}) :
          \E out \in {closeZipReader(vfs.gfs, isSet)} :
             vfs' = [vfs EXCEPT !.gfs = out.gfs, !.closes = @ \cup {out.err}]
    /\ UNCHANGED <<discoverVars, tri, env>>

OnceNext ==
    \/ \E c \in Callers :
          \/ OnceCall(c)
          \/ OnceLoad(c)
          \/ OnceLock(c)
          \/ OnceDownload(c)
          \/ OnceIndex(c)
          \/ OnceStore(c)
          \/ OnceUnlock(c)
          \/ OnceReturn(c)
          \/ OnceRead(c)
          \/ OnceReadAll(c)
    \/ OnceCleanup

OnceSpec == OnceInit /\ [][OnceNext]_vars

\* what the calls return on a GitHubFS initialized by one caller alone
SequentialOut(op) ==
    LET gfs == ensureInitialized(NewGitHubFS(<<"m">>, <<>>, NotDetected), repo)
    IN IF op = "ReadFile" THEN GitHubFS_ReadFile(gfs, repo, <<"c", "o", "m", "p", "o", "s", "e", ".", "y", "a", "m", "l">>)
       ELSE IF op = "ReadDir" THEN GitHubFS_ReadDir(gfs, repo, <<".">>)
       ELSE GitHubFS_Walk(gfs, repo, <<".">>, {})

\* what ReadFile returns once Cleanup has closed the archive
ClosedOut ==
    GitHubFS_ReadFile(GitHubFS_Cleanup(ensureInitialized(NewGitHubFS(<<"m">>, <<>>, NotDetected), repo)).gfs,
                      repo, <<"c", "o", "m", "p", "o", "s", "e", ".", "y", "a", "m", "l">>)

\* C17: however concurrent ReadFile, ReadDir and Walk calls on one GitHubFS
\* interleave, the archive is downloaded and indexed at most once, no call reads the
\* path index or the zip reader before that step is finished, and every call sees
\* the same initialization result, a failed one included: each returns what it
\* returns on a GitHubFS that one caller initialized alone (with the archive closed
\* by Cleanup, ReadFile what it returns there on the closed archive, or the error
\* of reading a file that was opened before the archive was closed).
C17_OnceBarrier ==
    vfs.phase = "once" =>
       /\ vfs.downloads <= 1
       /\ ~vfs.early
       /\ \A c \in Callers : vfs.callers[c].pc \in {"return", "read"} => vfs.gfs.initialized
       /\ \A err \in vfs.seen : err = ensureInitialized(NewGitHubFS(<<"m">>, <<>>, NotDetected), repo).initErr
       /\ \A op \in DOMAIN vfs.outs :
             \A out \in vfs.outs[op] :
                \/ out = SequentialOut(op)
                \/ /\ vfs.gfs.closed
                   /\ op = "ReadFile"
                   /\ out \in {ClosedOut, ClosedWhileReading}

\* a caller had to wait for the mutex while another one was initializing, the
\* download failed, and a later call got the stored error without a new download
C17_Witness ==
    /\ vfs.phase = "once"
    /\ vfs.waited
    /\ vfs.calls = MaxCalls
    /\ \A c \in Callers : vfs.callers[c].pc = "idle"
    /\ vfs.downloads = 1
    /\ vfs.seen = {vfs.gfs.initErr}
    /\ vfs.gfs.initErr # Nil

\* ------------------------------------------------------------------ platform signals

\* what the GenerateServices call of a signal returned in this run
GeneratedBy(signal) ==
    {hist.generated[i] : i \in {j \in DOMAIN hist.generated : hist.generated[j].signal = signal}}

\* the directories in which a signal was shown a file of this name (in any case)
ObservedIn(signal, name) ==
    {hist.observed[i][2] :
        i \in {j \in DOMAIN hist.observed :
                  /\ hist.observed[j][1] = signal
                  /\ EqualFold(hist.observed[j][3], name)}}

\* the directories in which the walk showed the Railway signal both configs
BothRailwayConfigs ==
    ObservedIn("railway", <<"r", "a", "i", "l", "w", "a", "y", ".", "j", "s", "o", "n">>) \cap ObservedIn("railway", <<"r", "a", "i", "l", "w", "a", "y", ".", "t", "o", "m", "l">>)

\* C27: when one directory holds both railway.json and railway.toml, the Railway
\* signal generates its single service from railway.json, whichever of the two
\* entries the walk observes first.
C27_JsonTakesPrecedence ==
    \A g \in GeneratedBy("railway") :
       BothRailwayConfigs # {} =>
          /\ g.err = Nil
          /\ Len(g.services) = 1
          /\ Dir(g.services[1].Configs[1].Path) \in BothRailwayConfigs
          /\ EqualFold(Base(g.services[1].Configs[1].Path), <<"r", "a", "i", "l", "w", "a", "y", ".", "j", "s", "o", "n">>)

\* C28: the service of the Netlify signal has the directory of the observed
\* netlify.toml as its build path and that directory's basename as its name,
\* whatever entries are observed after netlify.toml.
C28_NetlifyBuildPath ==
    \A g \in GeneratedBy("netlify") :
       \A k \in DOMAIN g.services :
          /\ g.services[k].BuildPath = Dir(g.services[k].Configs[1].Path)
          /\ g.services[k].Name = Base(Dir(g.services[k].Configs[1].Path))

\* no element of the sequence occurs twice
NoDuplicates(seq) == \A i, j \in DOMAIN seq : seq[i] = seq[j] => i = j

\* Discover returns no service twice
DiscoverOutputOnce ==
    ret.returned /\ "digitalocean" \in SignalSet => NoDuplicates(ret.services)

\* C29: within one run the DigitalOcean signal records each app-spec file at most
\* once, so each service and each database declared in it appears at most once in
\* what Discover returns, also for a spec at .do/app.yaml.
C29_AppSpecOnce ==
    /\ NoDuplicates(signals.digitalocean.configPaths)
    /\ DiscoverOutputOnce

\* ------------------------------------------------------------------ environment

\* EnvType
EnvTypeUnknown == 0
EnvTypeSecret == 1
EnvTypeDatabase == 2
EnvTypeConfig == 3
EnvTypeGenerated == 4
EnvTypeURL == 5
EnvTypeBoolean == 6
EnvTypeNumeric == 7

secretPatterns == <<
    <<"s", "e", "c", "r", "e", "t">>, <<"k", "e", "y">>, <<"t", "o", "k", "e", "n">>, <<"p", "a", "s", "s", "w", "o", "r", "d">>, <<"p", "a", "s", "s">>, <<"p", "w", "d">>,
    <<"a", "u", "t", "h">>, <<"a", "u", "t", "h", "o", "r", "i", "z", "a", "t", "i", "o", "n">>, <<"c", "r", "e", "d", "e", "n", "t", "i", "a", "l">>, <<"c", "r", "e", "d">>,
    <<"p", "r", "i", "v", "a", "t", "e">>, <<"p", "r", "i", "v">>, <<"c", "e", "r", "t">>, <<"c", "e", "r", "t", "i", "f", "i", "c", "a", "t", "e">>,
    <<"a", "p", "i", "_", "k", "e", "y">>, <<"a", "p", "i", "k", "e", "y">>, <<"a", "c", "c", "e", "s", "s", "_", "k", "e", "y">>, <<"s", "e", "c", "r", "e", "t", "_", "k", "e", "y">>,
    <<"c", "l", "i", "e", "n", "t", "_", "s", "e", "c", "r", "e", "t">>, <<"c", "l", "i", "e", "n", "t", "_", "i", "d">>, <<"o", "a", "u", "t", "h">>,
    <<"b", "e", "a", "r", "e", "r">>, <<"j", "w", "t">>, <<"s", "e", "s", "s", "i", "o", "n">>, <<"c", "o", "o", "k", "i", "e">>,
    <<"s", "a", "l", "t">>, <<"h", "a", "s", "h">>, <<"s", "i", "g", "n", "a", "t", "u", "r", "e">>, <<"s", "i", "g", "n", "i", "n", "g">>,
    <<"e", "n", "c", "r", "y", "p", "t", "i", "o", "n">>, <<"d", "e", "c", "r", "y", "p", "t">>, <<"c", "i", "p", "h", "e", "r">>,
    <<"w", "e", "b", "h", "o", "o", "k">>, <<"h", "o", "o", "k">>, <<"v", "a", "u", "l", "t">>, <<"s", "t", "o", "r", "e">>, <<"s", "e", "c", "u", "r", "e">> >>

databasePatterns == <<
    <<"d", "a", "t", "a", "b", "a", "s", "e", "_", "u", "r", "l">>, <<"d", "b", "_", "u", "r", "l">>, <<"d", "s", "n">>, <<"c", "o", "n", "n", "e", "c", "t", "i", "o", "n", "_", "s", "t", "r", "i", "n", "g">>,
    <<"p", "o", "s", "t", "g", "r", "e", "s", "_", "u", "r", "l">>, <<"m", "y", "s", "q", "l", "_", "u", "r", "l">>, <<"m", "o", "n", "g", "o", "d", "b", "_", "u", "r", "l">>, <<"r", "e", "d", "i", "s", "_", "u", "r", "l">> >>

systemEnvVars == <<
    <<"p", "a", "t", "h">>, <<"h", "o", "m", "e">>, <<"u", "s", "e", "r">>, <<"s", "h", "e", "l", "l">>, <<"p", "w", "d">>, <<"l", "a", "n", "g">>, <<"t", "e", "r", "m">>, <<"t", "m", "p", "d", "i", "r">>,
    <<"p", "s", "1">>, <<"p", "s", "2">>, <<"i", "f", "s">>, <<"m", "a", "i", "l">>, <<"m", "a", "i", "l", "p", "a", "t", "h">>, <<"o", "p", "t", "i", "n", "d">>, <<"e", "d", "i", "t", "o", "r">>,
    <<"p", "a", "g", "e", "r">>, <<"b", "r", "o", "w", "s", "e", "r">>, <<"d", "i", "s", "p", "l", "a", "y">>, <<"x", "a", "u", "t", "h", "o", "r", "i", "t", "y">>, <<"s", "s", "h", "_", "a", "u", "t", "h", "_", "s", "o", "c", "k">>,
    <<"o", "l", "d", "p", "w", "d">>, <<"s", "h", "l", "v", "l">>, <<"h", "o", "s", "t", "n", "a", "m", "e">>, <<"l", "o", "g", "n", "a", "m", "e">>, <<"u", "i", "d">>, <<"g", "i", "d">> >>

\* strings.Count(s, c) for a one-character c
CountChar(s, c) == Cardinality({i \in DOMAIN s : s[i] = c})

\* the elements of a sequence
Elems(seq) == {seq[i] : i \in DOMAIN seq}

Digits == <<"0", "1", "2", "3", "4", "5", "6", "7", "8", "9">>

\* isURLSafeBase64
isURLSafeBase64(s) ==
    \A i \in DOMAIN s :
       s[i] \in Elems(UpperCase) \cup Elems(LowerCase) \cup Elems(Digits) \cup {"-", "_"}

\* hasHighEntropy: more than half of the characters are distinct
hasHighEntropy(value) == 2 * Cardinality(Elems(value)) > Len(value)

\* containsMixedCase
containsMixedCase(value) ==
    /\ \E i \in DOMAIN value : value[i] \in Elems(UpperCase)
    /\ \E i \in DOMAIN value : value[i] \in Elems(LowerCase)

\* looksGenerated
looksGenerated(value) ==
    IF Len(value) < 8 THEN FALSE
    ELSE IF Len(value) = 36 /\ CountChar(value, "-") = 4 THEN TRUE
    ELSE IF isURLSafeBase64(value) /\ Len(value) >= 16 THEN TRUE
    ELSE IF CountChar(value, ".") = 2 /\ Len(value) > 50 THEN TRUE
    ELSE IF Len(value) >= 20 /\ hasHighEntropy(value) /\ containsMixedCase(value) THEN TRUE
    ELSE FALSE

\* a <= b for two strings of digits of one length
RECURSIVE DigitsLeq(_, _)
DigitsLeq(a, b) ==
    IF Len(a) = 0 THEN TRUE
    ELSE LET x == CHOOSE i \in DOMAIN Digits : Digits[i] = a[1]
             y == CHOOSE i \in DOMAIN Digits : Digits[i] = b[1]
         IN IF x # y THEN x < y ELSE DigitsLeq(Tail(a), Tail(b))

\* the digits without their leading zeros
RECURSIVE TrimZeros(_)
TrimZeros(digits) ==
    IF Len(digits) > 0 /\ digits[1] = "0" THEN TrimZeros(Tail(digits)) ELSE digits

\* isNumeric: strconv.Atoi accepts an optional sign and decimal digits whose value
\* fits a 64-bit int; leading zeros do not count
isNumeric(value) ==
    LET signed == Len(value) > 0 /\ value[1] \in {"+", "-"}
        digits == IF signed THEN Tail(value) ELSE value
        limit == IF signed /\ value[1] = "-" THEN <<"9", "2", "2", "3", "3", "7", "2", "0", "3", "6", "8", "5", "4", "7", "7", "5", "8", "0", "8">>
                 ELSE <<"9", "2", "2", "3", "3", "7", "2", "0", "3", "6", "8", "5", "4", "7", "7", "5", "8", "0", "7">>
    IN /\ Len(digits) > 0
       /\ \A i \in DOMAIN digits : digits[i] \in Elems(Digits)
       /\ \/ Len(TrimZeros(digits)) < Len(limit)
          \/ Len(TrimZeros(digits)) = Len(limit) /\ DigitsLeq(TrimZeros(digits), limit)

\* the name contains one of the patterns
ContainsAny(nameLower, patterns) ==
    \E i \in DOMAIN patterns : Contains(nameLower, patterns[i])

\* what ClassifyEnvVar returns
Classified(type, sensitive) == [type |-> type, sensitive |-> sensitive]

secretResultOpen == Classified(EnvTypeSecret, FALSE)
\* return EnvTypeSecret, true
secretResult == Classified(EnvTypeSecret, TRUE)

\* ClassifyEnvVar
ClassifyEnvVar(name, value) ==
    IF ToLower(name) \in Elems(systemEnvVars) THEN Classified(EnvTypeUnknown, FALSE)
    ELSE IF looksGenerated(value) THEN Classified(EnvTypeGenerated, TRUE)
    ELSE IF ContainsAny(ToLower(name), databasePatterns) THEN Classified(EnvTypeDatabase, TRUE)
    ELSE IF ContainsAny(ToLower(name), secretPatterns) THEN secretResult
    ELSE IF \/ HasPrefix(value, <<"h", "t", "t", "p">>)
            \/ Contains(ToLower(name), <<"u", "r", "l">>)
            \/ Contains(ToLower(name), <<"w", "e", "b", "h", "o", "o", "k">>)
    THEN Classified(EnvTypeURL, FALSE)
    ELSE IF \/ value = <<"t", "r", "u", "e">>
            \/ value = <<"f", "a", "l", "s", "e">>
            \/ Contains(ToLower(name), <<"e", "n", "a", "b", "l", "e">>)
            \/ Contains(ToLower(name), <<"f", "l", "a", "g">>)
    THEN Classified(EnvTypeBoolean, FALSE)
    ELSE IF isNumeric(value) THEN Classified(EnvTypeNumeric, FALSE)
    ELSE Classified(EnvTypeConfig, FALSE)

\* the names and values ClassifyEnvVar is called with
ClassifyNames ==
    {<<"P", "O", "R", "T">>, <<"D", "A", "T", "A", "B", "A", "S", "E", "_", "U", "R", "L">>, <<"J", "W", "T", "_", "S", "E", "C", "R", "E", "T">>, <<"D", "E", "B", "U", "G">>, <<"H", "O", "M", "E">>, <<"P", "a", "t", "h">>, <<"P", "W", "D">>,
     <<"S", "L", "A", "C", "K", "_", "W", "E", "B", "H", "O", "O", "K">>, <<"A", "P", "I", "_", "U", "R", "L">>, <<"E", "N", "A", "B", "L", "E", "_", "C", "A", "C", "H", "E">>, <<"F", "E", "A", "T", "U", "R", "E", "_", "F", "L", "A", "G">>, <<"A", "P", "P", "_", "N", "A", "M", "E">>,
     <<"R", "E", "D", "I", "S", "_", "U", "R", "L">>, <<"G", "I", "T", "H", "U", "B", "_", "T", "O", "K", "E", "N">>}

ClassifyValues ==
    {<<"3", "0", "0", "0">>, <<"p", "o", "s", "t", "g", "r", "e", "s", ":", "/", "/", "u", ":", "p", "@", "h", "/", "d", "b">>, <<"t", "r", "u", "e">>, <<"f", "a", "l", "s", "e">>, <<"/", "r", "o", "o", "t">>, <<>>, <<"-", "5">>,
     <<"h", "t", "t", "p", "s", ":", "/", "/", "h", "o", "o", "k", "s", ".", "e", "x", "a", "m", "p", "l", "e", ".", "c", "o", "m", "/", "T", "0", "/", "B", "0">>, <<"1", "2", "3", "4", "5", "6", "7", "8">>, <<"1", "2", "3", "4", "5", "6", "7", "8", "9", "0", "1", "2", "3", "4", "5", "6">>,
     <<"1", "2", "3", "e", "4", "5", "6", "7", "-", "e", "8", "9", "b", "-", "1", "2", "d", "3", "-", "a", "4", "5", "6", "-", "4", "2", "6", "6", "1", "4", "1", "7", "4", "0", "0", "0">>, <<"V", "1", "S", "t", "G", "X", "R", "8", "_", "Z", "5", "j", "d", "H", "i", "6", "B", "-", "m", "y", "T">>,
     <<"e", "y", "J", "h", "b", "G", "c", "i", "O", "i", "J", "I", "U", "z", "I", "1", "N", "i", "J", "9", ".", "e", "y", "J", "z", "d", "W", "I", "i", "O", "i", "I", "x", "M", "j", "M", "0", "N", "T", "Y", "3", "O", "D", "k", "w", "I", "n", "0", ".", "d", "o", "z", "j", "g", "N", "r", "y", "P", "4", "J", "3", "j", "V", "m", "N", "H", "l", "0", "w", "5", "N">>,
     <<"a", "B", "3", "$", "k", "L", "9", "!", "m", "N", "2", "#", "p", "Q", "7", "&", "x", "Y", "5", "*">>, <<"9", "2", "2", "3", "3", "7", "2", "0", "3", "6", "8", "5", "4", "7", "7", "5", "8", "0", "8">>, <<"p", "r", "o", "d", "u", "c", "t", "i", "o", "n">>,
     <<"+", "0", "0", "0", "0", "0", "0", "0", "0", "0", "0", "0", "0", "0", "0", "0", "0", "0", "0", "0", "0", "1">>, <<"-", "9", "2", "2", "3", "3", "7", "2", "0", "3", "6", "8", "5", "4", "7", "7", "5", "8", "0", "8">>, <<"+", "9", "2", "2", "3", "3", "7", "2", "0", "3", "6", "8", "5", "4", "7", "7", "5", "8", "0", "8">>}

\* ClassifyEnvVar is called once with some name and value
ClassifyInit ==
    /\ repo \in {Repo("local", <<".">>, <<>>, 200, <<>>, {})}
    /\ filesystem = NewGitHubFS(<<"m">>, <<>>, NotDetected)
    /\ signals = NewSignals
    /\ pc = "idle"
    /\ run = 0
    /\ sigIdx = 1
    /\ stack = <<>>
    /\ current = walkItem(<<>>, 0)
    /\ stream = <<>>
    /\ entry = NoEntry
    /\ observing = [s \in {Signals[i] : i \in DOMAIN Signals} |-> 0]
    /\ lastCriticalError = Nil
    /\ results = <<>>
    /\ ret = NoReturn
    /\ hist = NoHist
    /\ tri = NoTri
    /\ ctx = "live"
    /\ vfs = NoVfs
    /\ \E name \in ClassifyNames, value \in ClassifyValues :
          env = [phase |-> "classify", name |-> name, value |-> value, returned |-> FALSE,
                 type |-> EnvTypeUnknown, sensitive |-> FALSE]

Classify ==
    /\ env.phase = "classify"
    /\ ~env.returned
    /\ \E out \in {ClassifyEnvVar(env.name, env.value)} :
          env' = [env EXCEPT !.returned = TRUE, !.type = out.type,
                             !.sensitive = out.sensitive]
    /\ UNCHANGED <<discoverVars, tri, vfs>>

ClassifySpec == ClassifyInit /\ [][Classify]_vars

\* ------------------------------------------------------------------ extraction

\* how many variables the largest Dockerfile sets
MaxEnvVars == 34

\* the capacity of the channel Extract returns
chanCap == 32

\* types.EnvResult
EnvResult(varName, value, class, source, confidence) ==
    [VarName |-> varName, Value |-> value, Type |-> class.type,
     Sensitive |-> class.sensitive, Source |-> source, Confidence |-> confidence]

\* types.ShouldIgnore: the name is in the system-variable list
ShouldIgnore(name) == ToLower(name) \in Elems(systemEnvVars)

\* what the three parsers make of the bytes of one file: the compose loader (an
\* error, or the environment of every service), the Dockerfile parser (an error, or
\* the instructions with their arguments) and godotenv (an error, or the variables)
EnvFile(name, compose, dockerfile, dotenv) ==
    [name |-> name, compose |-> compose, dockerfile |-> dockerfile, dotenv |-> dotenv]
ParseError(msg) == [err |-> Error("Malformed", msg), parsed |-> <<>>]
Parsed(parsed) == [err |-> Nil, parsed |-> parsed]
Instruction(cmd, args) == [cmd |-> cmd, args |-> args]

\* the elements of seq in the order given
Permute(seq, order) == [i \in 1..Len(order) |-> seq[order[i]]]

\* what an extractor returns
Extracted(found, err) == [found |-> found, err |-> err]

\* DockerComposeExtractor.CanHandle
DockerComposeExtractor_CanHandle(filename) ==
    /\ Contains(ToLower(filename), <<"c", "o", "m", "p", "o", "s", "e">>)
    /\ \/ HasSuffix(ToLower(filename), <<".", "y", "m", "l">>)
       \/ HasSuffix(ToLower(filename), <<".", "y", "a", "m", "l">>)

\* DockerComposeExtractor.Extract: the loop over service.Environment, in the order
\* given
composeServiceEnv(pairs, filename) ==
    LET kept == SelectSeq(pairs, LAMBDA kv : ~ShouldIgnore(kv[1]))
    IN [i \in 1..Len(kept) |->
           EnvResult(kept[i][1], kept[i][2], ClassifyEnvVar(kept[i][1], kept[i][2]),
                     <<"d", "o", "c", "k", "e", "r", "-", "c", "o", "m", "p", "o", "s", "e", ":">> \o filename, 80)]

\* DockerComposeExtractor.Extract: the loop over project.Services, in the order
\* given; the environment of a service is a Go map and comes in any order
RECURSIVE composeEnv(_, _, _)
composeEnv(services, order, filename) ==
    IF order = <<>> THEN {<<>>}
    ELSE {composeServiceEnv(Permute(services[Head(order)], keys), filename) \o rest :
             keys \in iterationOrders(DOMAIN services[Head(order)]),
             rest \in composeEnv(services, Tail(order), filename)}

\* DockerComposeExtractor.Extract: the results it can return; project.Services is a
\* Go map too, and whether the loader looks at a canceled context is its own affair
DockerComposeExtractor_Extract(context, filename, content) ==
    (IF content.err # Nil THEN {Extracted(<<>>, content.err)}
     ELSE {Extracted(found, Nil) :
              found \in UNION {composeEnv(content.parsed, order, filename) :
                                  order \in iterationOrders(DOMAIN content.parsed)}})
    \cup (IF context = "canceled"
          THEN {Extracted(<<>>, Error("Canceled", <<"c", "o", "n", "t", "e", "x", "t", " ", "c", "a", "n", "c", "e", "l", "e", "d">>))}
          ELSE {})

\* DockerfileExtractor.CanHandle
DockerfileExtractor_CanHandle(filename) == Contains(ToLower(filename), <<"d", "o", "c", "k", "e", "r", "f", "i", "l", "e">>)

\* strings.SplitN(s, "=", 2) of a string with a "=" in it
SplitAtEquals(s) ==
    LET i == CHOOSE k \in DOMAIN s : s[k] = "=" /\ \A j \in 1..(k - 1) : s[j] # "="
    IN <<SubSeq(s, 1, i - 1), SubSeq(s, i + 1, Len(s))>>

\* strings.Join(parts, " ")
RECURSIVE JoinSpace(_)
JoinSpace(parts) ==
    IF Len(parts) = 0 THEN <<>>
    ELSE IF Len(parts) = 1 THEN parts[1]
    ELSE parts[1] \o <<" ">> \o JoinSpace(Tail(parts))

\* DockerfileExtractor.parseEnvNode: the arguments of one ENV instruction
parseEnvNode(args, dockerfilePath) ==
    IF Len(args) = 0 THEN <<>>
    ELSE IF Contains(args[1], <<"=">>)
    THEN LET kept == SelectSeq(args, LAMBDA arg : /\ Contains(arg, <<"=">>)
                                                  /\ ~ShouldIgnore(SplitAtEquals(arg)[1]))
         IN [i \in 1..Len(kept) |->
                EnvResult(SplitAtEquals(kept[i])[1], SplitAtEquals(kept[i])[2],
                          ClassifyEnvVar(SplitAtEquals(kept[i])[1], SplitAtEquals(kept[i])[2]),
                          <<"d", "o", "c", "k", "e", "r", "f", "i", "l", "e", ":">> \o dockerfilePath, 60)]
    ELSE IF Len(args) >= 2
    THEN <<EnvResult(args[1], JoinSpace(Tail(args)),
                     ClassifyEnvVar(args[1], JoinSpace(Tail(args))),
                     <<"d", "o", "c", "k", "e", "r", "f", "i", "l", "e", ":">> \o dockerfilePath, 60)>>
    ELSE <<>>

\* DockerfileExtractor.Extract
DockerfileExtractor_Extract(filename, content) ==
    IF content.err # Nil THEN {Extracted(<<>>, content.err)}
    ELSE {Extracted(
            Flatten([i \in DOMAIN content.parsed |->
                       IF ToUpper(content.parsed[i].cmd) = <<"E", "N", "V">>
                       THEN parseEnvNode(content.parsed[i].args, filename)
                       ELSE <<>>]),
            Nil)}

\* DotEnvExtractor.CanHandle
DotEnvExtractor_CanHandle(filename) == HasPrefix(ToLower(Base(filename)), <<".", "e", "n", "v">>)

\* DotEnvExtractor.getFileConfidence
getFileConfidence(filename) ==
    IF filename = <<".", "e", "n", "v">> THEN 85
    ELSE IF Contains(filename, <<"p", "r", "o", "d", "u", "c", "t", "i", "o", "n">>) THEN 90
    ELSE IF Contains(filename, <<"e", "x", "a", "m", "p", "l", "e">>) THEN 30
    ELSE 75

\* DotEnvExtractor.Extract: the variables are a Go map and come in any order
DotEnvExtractor_Extract(filename, content) ==
    IF content.err # Nil THEN {Extracted(<<>>, content.err)}
    ELSE {Extracted([i \in 1..Len(keys) |->
                        EnvResult(content.parsed[keys[i]][1], content.parsed[keys[i]][2],
                                  ClassifyEnvVar(content.parsed[keys[i]][1],
                                                 content.parsed[keys[i]][2]),
                                  <<"d", "o", "t", "e", "n", "v", ":">> \o filename,
                                  getFileConfidence(Base(filename)))],
                    Nil) :
             keys \in iterationOrders(DOMAIN content.parsed)}

\* NewExtractor: the extractors in registration order
extractors == <<"compose", "dockerfile", "dotenv">>

\* ContentExtractor.CanHandle
CanHandle(extractor, filename) ==
    IF extractor = "compose" THEN DockerComposeExtractor_CanHandle(filename)
    ELSE IF extractor = "dockerfile" THEN DockerfileExtractor_CanHandle(filename)
    ELSE DotEnvExtractor_CanHandle(filename)

\* ContentExtractor.Extract: the results the call can have
ExtractorExtract(extractor, context, file) ==
    IF extractor = "compose"
    THEN DockerComposeExtractor_Extract(context, file.name, file.compose)
    ELSE IF extractor = "dockerfile" THEN DockerfileExtractor_Extract(file.name, file.dockerfile)
    ELSE DotEnvExtractor_Extract(file.name, file.dotenv)

\* dedupKeepsFirst with an equal confidence replacing the entry too
dedupKeepsLast(envVars, envVar) ==
    IF \/ envVar.VarName \notin DOMAIN envVars
       \/ envVar.Confidence >= envVars[envVar.VarName].Confidence
    THEN MapPut(envVars, envVar.VarName, envVar)
    ELSE envVars

\* runEnvExtraction: the loop body over the channel, one result received
dedupKeepsFirst(envVars, envVar) ==
    IF \/ envVar.VarName \notin DOMAIN envVars
       \/ envVar.Confidence > envVars[envVar.VarName].Confidence
    THEN MapPut(envVars, envVar.VarName, envVar)
    ELSE envVars

\* afterExtract with the error ending the loop
afterExtractReturns(producer, out) ==
    IF out.err # Nil THEN [producer EXCEPT !.i = Len(extractors) + 1]
    ELSE IF Len(out.found) = 0 THEN [producer EXCEPT !.i = @ + 1]
    ELSE [producer EXCEPT !.pc = "send", !.pending = out.found]

\* Extractor.Extract: where the producer goes after an extractor's Extract returned
afterExtract(producer, out) ==
    IF out.err # Nil THEN [producer EXCEPT !.i = @ + 1]
    ELSE IF Len(out.found) = 0 THEN [producer EXCEPT !.i = @ + 1]
    ELSE [producer EXCEPT !.pc = "send", !.pending = out.found]

\* ---- the files of the services the extraction runs over

NotThisFormat == ParseError(<<"n", "o", "t", " ", "t", "h", "i", "s", " ", "f", "o", "r", "m", "a", "t">>)
Pair(key, value) == <<key, value>>

\* the name of the n-th variable of the large Dockerfile
NumberedVar(n) == <<"V">> \o <<Digits[(n \div 10) + 1], Digits[(n % 10) + 1]>>

ComposeFile ==
    EnvFile(<<"d", "o", "c", "k", "e", "r", "-", "c", "o", "m", "p", "o", "s", "e", ".", "y", "m", "l">>,
            Parsed(<<
                <<Pair(<<"N", "O", "D", "E", "_", "E", "N", "V">>, <<"p", "r", "o", "d", "u", "c", "t", "i", "o", "n">>), Pair(<<"P", "A", "T", "H">>, <<"/", "u", "s", "r", "/", "b", "i", "n">>)>>,
                <<Pair(<<"N", "O", "D", "E", "_", "E", "N", "V">>, <<"s", "t", "a", "g", "i", "n", "g">>), Pair(<<"A", "P", "I", "_", "K", "E", "Y">>, <<"a", "b", "c">>)>> >>),
            NotThisFormat, NotThisFormat)
BrokenComposeFile ==
    EnvFile(<<"c", "o", "m", "p", "o", "s", "e", ".", "y", "a", "m", "l">>, ParseError(<<"y", "a", "m", "l", ":", " ", "d", "i", "d", " ", "n", "o", "t", " ", "f", "i", "n", "d", " ", "e", "x", "p", "e", "c", "t", "e", "d", " ", "k", "e", "y">>),
            NotThisFormat, NotThisFormat)
DockerfileFile ==
    EnvFile(<<"D", "o", "c", "k", "e", "r", "f", "i", "l", "e">>, NotThisFormat,
            Parsed(<<Instruction(<<"F", "R", "O", "M">>, <<<<"n", "o", "d", "e">>>>),
                     Instruction(<<"E", "N", "V">>, <<<<"P", "O", "R", "T", "=", "3", "0", "0", "0">>, <<"H", "O", "M", "E", "=", "/", "r", "o", "o", "t">>>>),
                     Instruction(<<"E", "N", "V">>, <<<<"P", "A", "T", "H">>, <<"/", "u", "s", "r", "/", "b", "i", "n">>>>),
                     Instruction(<<"e", "n", "v">>, <<<<"P", "O", "R", "T", "=", "8", "0", "8", "0">>>>),
                     Instruction(<<"E", "N", "V">>, <<<<"M", "S", "G">>, <<"a">>, <<"b">>>>)>>),
            NotThisFormat)
\* the key, value and separator nodes a parser can make of ENV K=V and ENV K V
DockerfileNodesFile ==
    EnvFile(<<"a", "p", "p", ".", "d", "o", "c", "k", "e", "r", "f", "i", "l", "e">>, NotThisFormat,
            Parsed(<<Instruction(<<"E", "N", "V">>, <<<<"P", "O", "R", "T">>, <<"3", "0", "0", "0">>, <<"=">>>>),
                     Instruction(<<"E", "N", "V">>, <<<<"S", "H", "E", "L", "L">>, <<"/", "b", "i", "n", "/", "s", "h">>, <<>> >>),
                     Instruction(<<"E", "N", "V">>, <<<<"P", "O", "R", "T">>, <<"8", "0", "8", "0">>, <<"=">>>>),
                     Instruction(<<"E", "N", "V">>, <<<<"A", "L", "O", "N", "E">>>>),
                     Instruction(<<"E", "N", "V">>, <<>>)>>),
            NotThisFormat)
BrokenDockerfileFile ==
    EnvFile(<<"D", "o", "c", "k", "e", "r", "f", "i", "l", "e", ".", "d", "e", "v">>, NotThisFormat, ParseError(<<"f", "i", "l", "e", " ", "w", "i", "t", "h", " ", "n", "o", " ", "i", "n", "s", "t", "r", "u", "c", "t", "i", "o", "n", "s">>),
            NotThisFormat)
LargeDockerfileFile ==
    EnvFile(<<"D", "o", "c", "k", "e", "r", "f", "i", "l", "e", ".", "b", "i", "g">>, NotThisFormat,
            Parsed([n \in 1..MaxEnvVars |->
                       Instruction(<<"E", "N", "V">>, <<NumberedVar(n) \o <<"=", "x">>>>)]),
            NotThisFormat)
DotEnvFile ==
    EnvFile(<<".", "e", "n", "v">>, NotThisFormat, NotThisFormat,
            Parsed(<<Pair(<<"N", "O", "D", "E", "_", "E", "N", "V">>, <<"d", "e", "v", "e", "l", "o", "p", "m", "e", "n", "t">>), Pair(<<"H", "O", "M", "E">>, <<"/", "r", "o", "o", "t">>)>>))
DotEnvLocalFile ==
    EnvFile(<<"c", "o", "n", "f", "i", "g", "/", ".", "e", "n", "v", ".", "l", "o", "c", "a", "l">>, NotThisFormat, NotThisFormat,
            Parsed(<<Pair(<<"N", "O", "D", "E", "_", "E", "N", "V">>, <<"l", "o", "c", "a", "l">>)>>))
DotEnvTestFile ==
    EnvFile(<<".", "e", "n", "v", ".", "t", "e", "s", "t">>, NotThisFormat, NotThisFormat,
            Parsed(<<Pair(<<"N", "O", "D", "E", "_", "E", "N", "V">>, <<"t", "e", "s", "t">>), Pair(<<"P", "O", "R", "T">>, <<"1">>)>>))
DotEnvExampleFile ==
    EnvFile(<<".", "e", "n", "v", ".", "e", "x", "a", "m", "p", "l", "e">>, NotThisFormat, NotThisFormat,
            Parsed(<<Pair(<<"N", "O", "D", "E", "_", "E", "N", "V">>, <<"e", "x", "a", "m", "p", "l", "e">>)>>))
DotEnvProductionFile ==
    EnvFile(<<".", "E", "N", "V", ".", "p", "r", "o", "d", "u", "c", "t", "i", "o", "n">>, NotThisFormat, NotThisFormat,
            Parsed(<<Pair(<<"N", "O", "D", "E", "_", "E", "N", "V">>, <<"p", "r", "o", "d", "u", "c", "t", "i", "o", "n">>)>>))
BrokenDotEnvFile ==
    EnvFile(<<".", "e", "n", "v", ".", "b", "a", "d">>, NotThisFormat, NotThisFormat,
            ParseError(<<"u", "n", "e", "x", "p", "e", "c", "t", "e", "d", " ", "c", "h", "a", "r", "a", "c", "t", "e", "r">>))
\* a file two extractors handle, the first of which fails
DotEnvComposeFile ==
    EnvFile(<<".", "e", "n", "v", ".", "c", "o", "m", "p", "o", "s", "e", ".", "y", "m", "l">>, ParseError(<<"t", "o", "p", "-", "l", "e", "v", "e", "l", " ", "o", "b", "j", "e", "c", "t", " ", "m", "u", "s", "t", " ", "b", "e", " ", "a", " ", "m", "a", "p", "p", "i", "n", "g">>),
            NotThisFormat, Parsed(<<Pair(<<"F", "O", "O">>, <<"b", "a", "r">>)>>))
\* a file two extractors handle, both of which find variables
DotEnvDockerfileFile ==
    EnvFile(<<".", "e", "n", "v", ".", "d", "o", "c", "k", "e", "r", "f", "i", "l", "e">>, NotThisFormat,
            Parsed(<<Instruction(<<"E", "N", "V">>, <<<<"F", "O", "O", "=", "1">>>>)>>),
            Parsed(<<Pair(<<"E", "N", "V", " ", "F", "O", "O">>, <<"1">>)>>))
\* a file all three handle
AllThreeFile ==
    EnvFile(<<".", "e", "n", "v", ".", "D", "o", "c", "k", "e", "r", "f", "i", "l", "e", ".", "c", "o", "m", "p", "o", "s", "e", ".", "y", "a", "m", "l">>,
            Parsed(<< <<Pair(<<"A">>, <<"1">>)>> >>),
            Parsed(<<Instruction(<<"s", "e", "r", "v", "i", "c", "e", "s", ":">>, <<>>)>>),
            Parsed(<<Pair(<<"s", "e", "r", "v", "i", "c", "e", "s">>, <<>>), Pair(<<"A">>, <<"1">>)>>))
ReadmeFile == EnvFile(<<"R", "E", "A", "D", "M", "E", ".", "m", "d">>, NotThisFormat, NotThisFormat, NotThisFormat)

\* the files of one service, in the order the walk reads them
EnvTrees ==
    {<<ComposeFile, DotEnvFile>>,
     <<DotEnvFile, ComposeFile>>,
     <<DockerfileFile, DotEnvTestFile>>,
     <<DockerfileNodesFile>>,
     <<ReadmeFile, BrokenComposeFile, BrokenDockerfileFile, BrokenDotEnvFile>>,
     <<DotEnvTestFile, DotEnvLocalFile>>,
     <<DotEnvLocalFile, DotEnvTestFile>>,
     <<DotEnvExampleFile, DotEnvLocalFile, DotEnvProductionFile, DotEnvFile>>,
     <<DotEnvComposeFile>>,
     <<DotEnvDockerfileFile>>,
     <<AllThreeFile>>,
     <<LargeDockerfileFile>>}

\* ---- Extract and its caller as processes

NoProducer == [pc |-> "off", i |-> 1, pending |-> <<>>]
NoChannel == [buf |-> <<>>, closed |-> 0]
Returned(extractor, out) == [extractor |-> extractor, found |-> out.found, err |-> out.err]

EnvInit ==
    /\ repo \in {Repo("local", <<".">>, <<>>, 200, <<>>, {})}
    /\ filesystem = NewGitHubFS(<<"m">>, <<>>, NotDetected)
    /\ signals = NewSignals
    /\ pc = "idle"
    /\ run = 0
    /\ sigIdx = 1
    /\ stack = <<>>
    /\ current = walkItem(<<>>, 0)
    /\ stream = <<>>
    /\ entry = NoEntry
    /\ observing = [s \in {Signals[i] : i \in DOMAIN Signals} |-> 0]
    /\ lastCriticalError = Nil
    /\ results = <<>>
    /\ ret = NoReturn
    /\ hist = NoHist
    /\ tri = NoTri
    /\ ctx = "live"
    /\ vfs = NoVfs
    /\ \E files \in EnvTrees :
          env = [phase |-> "extract",
                 files |-> files,          \* the files of the service, in walk order
                 fileIdx |-> 0,            \* the file Extract was last called for
                 context |-> "live",       \* the ctx handed to Extract
                 producer |-> NoProducer,  \* the goroutine Extract starts
                 channel |-> NoChannel,    \* the channel Extract returns
                 consumer |-> "idle",      \* the loop that ranges over the channel
                 envVars |-> EmptyMap,     \* the caller's map by variable name
                 delivered |-> <<>>,       \* what the channel has delivered
                 received |-> <<>>,        \* every result the caller has received
                 returns |-> <<>>]         \* what the extractors called returned

\* envExtractor.Extract(ctx, path, content): the channel is made, the goroutine started
ExtractCall ==
    /\ env.phase = "extract"
    /\ env.consumer = "idle"
    /\ env.fileIdx < Len(env.files)
    /\ env' = [env EXCEPT !.fileIdx = @ + 1,
                          !.producer = [pc |-> "range", i |-> 1, pending |-> <<>>],
                          !.channel = NoChannel,
                          !.consumer = "range",
                          !.delivered = <<>>,
                          !.returns = <<>>]
    /\ UNCHANGED <<discoverVars, tri, vfs>>

\* the producer: an extractor that cannot handle the file is passed over
ProducerSkip ==
    /\ env.phase = "extract"
    /\ env.producer.pc = "range"
    /\ env.producer.i <= Len(extractors)
    /\ ~CanHandle(extractors[env.producer.i], env.files[env.fileIdx].name)
    /\ env' = [env EXCEPT !.producer.i = @ + 1]
    /\ UNCHANGED <<discoverVars, tri, vfs>>

\* the producer: extractor.Extract(ctx, filename, content) and the check of its error
ProducerExtract ==
    /\ env.phase = "extract"
    /\ env.producer.pc = "range"
    /\ env.producer.i <= Len(extractors)
    /\ CanHandle(extractors[env.producer.i], env.files[env.fileIdx].name)
    /\ \E out \in ExtractorExtract(extractors[env.producer.i], env.context,
                                    env.files[env.fileIdx]) :
          env' = [env EXCEPT !.producer = afterExtract(env.producer, out),
                             !.returns = Append(@, Returned(extractors[env.producer.i], out))]
    /\ UNCHANGED <<discoverVars, tri, vfs>>

\* the producer: results <- result, which waits while the buffer is full
ProducerSend ==
    /\ env.phase = "extract"
    /\ env.producer.pc = "send"
    /\ Len(env.channel.buf) < chanCap
    /\ env' = [env EXCEPT !.channel.buf = Append(@, Head(env.producer.pending)),
                          !.producer = IF Len(env.producer.pending) = 1
                                       THEN [pc |-> "range", i |-> env.producer.i + 1,
                                             pending |-> <<>>]
                                       ELSE [@ EXCEPT !.pending = Tail(@)]]
    /\ UNCHANGED <<discoverVars, tri, vfs>>

\* the producer: the loop is over, the deferred close(results) runs
ProducerClose ==
    /\ env.phase = "extract"
    /\ env.producer.pc = "range"
    /\ env.producer.i > Len(extractors)
    /\ env' = [env EXCEPT !.producer.pc = "exited", !.channel.closed = @ + 1]
    /\ UNCHANGED <<discoverVars, tri, vfs>>

\* the consumer: one result received and deduplicated
ConsumerReceive ==
    /\ env.phase = "extract"
    /\ env.consumer = "range"
    /\ Len(env.channel.buf) > 0
    /\ \E envVar \in {Head(env.channel.buf)} :
          env' = [env EXCEPT !.channel.buf = Tail(@),
                             !.envVars = dedupKeepsFirst(@, envVar),
                             !.delivered = Append(@, envVar),
                             !.received = Append(@, envVar)]
    /\ UNCHANGED <<discoverVars, tri, vfs>>

\* the consumer: the channel is closed and empty, the range loop ends
ConsumerEnd ==
    /\ env.phase = "extract"
    /\ env.consumer = "range"
    /\ Len(env.channel.buf) = 0
    /\ env.channel.closed > 0
    /\ env' = [env EXCEPT !.consumer = IF env.fileIdx < Len(env.files) THEN "idle"
                                       ELSE "done"]
    /\ UNCHANGED <<discoverVars, tri, vfs>>

\* a consumer that leaves its loop early
ConsumerStop ==
    /\ env.phase = "extract"
    /\ env.consumer = "range"
    /\ env' = [env EXCEPT !.consumer = "stopped"]
    /\ UNCHANGED <<discoverVars, tri, vfs>>

\* the context handed to Extract is canceled
EnvCancel ==
    /\ env.phase = "extract"
    /\ env.fileIdx > 0
    /\ env.context = "live"
    /\ env' = [env EXCEPT !.context = "canceled"]
    /\ UNCHANGED <<discoverVars, tri, vfs>>

EnvNext ==
    \/ ExtractCall
    \/ ProducerSkip
    \/ ProducerExtract
    \/ ProducerSend
    \/ ProducerClose
    \/ ConsumerReceive
    \/ ConsumerEnd
    \/ ConsumerStop
    \/ EnvCancel

EnvSpec == EnvInit /\ [][EnvNext]_vars

\* the types ClassifyEnvVar marks sensitive
SensitiveTypes == {EnvTypeSecret, EnvTypeDatabase, EnvTypeGenerated}

EnvTypes ==
    {EnvTypeUnknown, EnvTypeSecret, EnvTypeDatabase, EnvTypeConfig, EnvTypeGenerated,
     EnvTypeURL, EnvTypeBoolean, EnvTypeNumeric}

\* C21: ClassifyEnvVar returns one (type, sensitive) pair for every name and value;
\* sensitive is true when the type is secret, database or generated and false when
\* it is url, boolean, numeric, config or unknown.
C21_SensitiveByType ==
    env.phase = "classify" /\ env.returned =>
       /\ env.type \in EnvTypes
       /\ env.sensitive <=> env.type \in SensitiveTypes

\* GITHUB_TOKEN=production came back as a sensitive secret
C21_Witness ==
    /\ env.phase = "classify"
    /\ env.returned
    /\ env.name = <<"G", "I", "T", "H", "U", "B", "_", "T", "O", "K", "E", "N">>
    /\ env.value = <<"p", "r", "o", "d", "u", "c", "t", "i", "o", "n">>
    /\ env.type = EnvTypeSecret
    /\ env.sensitive

\* the secret name patterns the rule names
StatedSecretPatterns ==
    <<<<"s", "e", "c", "r", "e", "t">>, <<"k", "e", "y">>, <<"t", "o", "k", "e", "n">>, <<"p", "a", "s", "s", "w", "o", "r", "d">>, <<"a", "u", "t", "h">>, <<"o", "a", "u", "t", "h">>, <<"j", "w", "t">>,
      <<"s", "e", "s", "s", "i", "o", "n">>, <<"h", "a", "s", "h">>>>

\* the eight rules as a first-match chain, in the stated order
StatedClassification(name, value) ==
    LET nameLower == ToLower(name)
    IN IF nameLower \in Elems(systemEnvVars) THEN Classified(EnvTypeUnknown, FALSE)
       ELSE IF looksGenerated(value) THEN Classified(EnvTypeGenerated, TRUE)
       ELSE IF ContainsAny(nameLower, databasePatterns) THEN Classified(EnvTypeDatabase, TRUE)
       ELSE IF ContainsAny(nameLower, StatedSecretPatterns)
       THEN Classified(EnvTypeSecret, TRUE)
       ELSE IF \/ HasPrefix(value, <<"h", "t", "t", "p">>)
               \/ Contains(nameLower, <<"u", "r", "l">>)
               \/ Contains(nameLower, <<"w", "e", "b", "h", "o", "o", "k">>)
       THEN Classified(EnvTypeURL, FALSE)
       ELSE IF \/ value \in {<<"t", "r", "u", "e">>, <<"f", "a", "l", "s", "e">>}
               \/ Contains(nameLower, <<"e", "n", "a", "b", "l", "e">>)
               \/ Contains(nameLower, <<"f", "l", "a", "g">>)
       THEN Classified(EnvTypeBoolean, FALSE)
       ELSE IF isNumeric(value) THEN Classified(EnvTypeNumeric, FALSE)
       ELSE Classified(EnvTypeConfig, FALSE)

\* C22: ClassifyEnvVar applies the eight rules as a first-match chain in the stated
\* order: a system name gives unknown, else a generated-looking value generated, else
\* a database name pattern database, else a secret name pattern secret, else a value
\* starting with http or a name containing url or webhook gives url, not sensitive,
\* else boolean, else an integer value numeric, else config.
C22_FirstMatchChain ==
    env.phase = "classify" /\ env.returned =>
       Classified(env.type, env.sensitive) = StatedClassification(env.name, env.value)

\* the chain holds for every name without "hook" in it
ChainButWebhook ==
    env.phase = "classify" /\ env.returned /\ ~Contains(ToLower(env.name), <<"h", "o", "o", "k">>) =>
       Classified(env.type, env.sensitive) = StatedClassification(env.name, env.value)

\* the examples of the specification
ClassifyExamples ==
    /\ ClassifyEnvVar(<<"P", "O", "R", "T">>, <<"3", "0", "0", "0">>) = Classified(EnvTypeNumeric, FALSE)
    /\ ClassifyEnvVar(<<"D", "A", "T", "A", "B", "A", "S", "E", "_", "U", "R", "L">>, <<"p", "o", "s", "t", "g", "r", "e", "s", ":", "/", "/", "u", ":", "p", "@", "h", "/", "d", "b">>)
          = Classified(EnvTypeDatabase, TRUE)
    /\ ClassifyEnvVar(<<"J", "W", "T", "_", "S", "E", "C", "R", "E", "T">>,
            <<"e", "y", "J", "h", "b", "G", "c", "i", "O", "i", "J", "I", "U", "z", "I", "1", "N", "i", "J", "9", ".", "e", "y", "J", "z", "d", "W", "I", "i", "O", "i", "I", "x", "M", "j", "M", "0", "N", "T", "Y", "3", "O", "D", "k", "w", "I", "n", "0", ".", "d", "o", "z", "j", "g", "N", "r", "y", "P", "4", "J", "3", "j", "V", "m", "N", "H", "l", "0", "w", "5", "N">>)
          = Classified(EnvTypeGenerated, TRUE)
    /\ ClassifyEnvVar(<<"D", "E", "B", "U", "G">>, <<"t", "r", "u", "e">>) = Classified(EnvTypeBoolean, FALSE)
    /\ ClassifyEnvVar(<<"H", "O", "M", "E">>, <<"/", "r", "o", "o", "t">>) = Classified(EnvTypeUnknown, FALSE)
    /\ ClassifyEnvVar(<<"P", "O", "R", "T">>, <<"9", "2", "2", "3", "3", "7", "2", "0", "3", "6", "8", "5", "4", "7", "7", "5", "8", "0", "8">>) = Classified(EnvTypeGenerated, TRUE)
    /\ ClassifyEnvVar(<<"P", "O", "R", "T">>, <<"1", "2", "3", "4", "5", "6", "7", "8", "9", "0", "1", "2", "3", "4", "5", "6">>) = Classified(EnvTypeGenerated, TRUE)
    /\ ClassifyEnvVar(<<"P", "O", "R", "T">>, <<"1", "2", "3", "4", "5", "6", "7", "8">>) = Classified(EnvTypeNumeric, FALSE)
    /\ ClassifyEnvVar(<<"P", "O", "R", "T">>, <<"-", "5">>) = Classified(EnvTypeNumeric, FALSE)
    /\ ClassifyEnvVar(<<"P", "O", "R", "T">>, <<>>) = Classified(EnvTypeConfig, FALSE)

\* ------------------------------------------------------------------ extraction claims

\* the consumer has ranged over the channel of the current file to its end
RangeEnded ==
    /\ env.phase = "extract"
    /\ env.fileIdx > 0
    /\ env.consumer \in {"idle", "done"}

\* the extractors that handle the current file, in registration order
Handlers ==
    SelectSeq(extractors, LAMBDA e : CanHandle(e, env.files[env.fileIdx].name))

\* what the extractors called returned without an error, one after the other
ExtractedResults ==
    Flatten([i \in DOMAIN env.returns |->
               IF env.returns[i].err = Nil THEN env.returns[i].found ELSE <<>>])

\* C23: for a consumer that keeps receiving, the channel delivers exactly the results
\* of the extractors that handle the file and returned no error, in registration
\* order and each in its own order, and is closed exactly once; an extractor that
\* fails contributes nothing and the later ones still run
C23_ChannelDelivers ==
    RangeEnded =>
        /\ [i \in DOMAIN env.returns |-> env.returns[i].extractor] = Handlers
        /\ env.delivered = ExtractedResults
        /\ env.channel.closed = 1
        /\ env.producer.pc = "exited"

\* a file two extractors handle: the first failed, the second delivered its results
C23_Witness ==
    /\ RangeEnded
    /\ Len(env.returns) = 2
    /\ env.returns[1].err # Nil
    /\ env.returns[2].err = Nil
    /\ Len(env.delivered) > 0

\* a file two extractors handle, both delivered
C23_BothDeliver ==
    /\ RangeEnded
    /\ Len(env.returns) >= 2
    /\ \A i \in DOMAIN env.returns : Len(env.returns[i].found) > 0

\* C24: among the results Extract delivers for one file no two have the same variable
\* name and source, also when two services of a Compose file declare the variable or
\* a Dockerfile sets it in two ENV instructions
C24_UniqueNameAndSource ==
    env.phase = "extract" =>
        \A i, j \in DOMAIN env.delivered :
            i # j => \/ env.delivered[i].VarName # env.delivered[j].VarName
                     \/ env.delivered[i].Source # env.delivered[j].Source

\* C25: no result Extract delivers names a variable of the system-variable list,
\* whichever extractor found it and in whichever form it was written
C25_NoSystemVariable ==
    env.phase = "extract" =>
        \A i \in DOMAIN env.delivered :
            ToLower(env.delivered[i].VarName) \notin Elems(systemEnvVars)

\* the system variables the Compose extractor and the ENV K=V form leave out
SystemVariablesOnlyFrom ==
    env.phase = "extract" =>
        \A i \in DOMAIN env.delivered :
            ToLower(env.delivered[i].VarName) \in Elems(systemEnvVars) =>
                \/ HasPrefix(env.delivered[i].Source, <<"d", "o", "t", "e", "n", "v", ":">>)
                \/ /\ HasPrefix(env.delivered[i].Source, <<"d", "o", "c", "k", "e", "r", "f", "i", "l", "e", ":">>)
                   /\ \E k \in DOMAIN env.files[env.fileIdx].dockerfile.parsed :
                         LET args == env.files[env.fileIdx].dockerfile.parsed[k].args
                         IN /\ Len(args) >= 2
                            /\ args[1] = env.delivered[i].VarName
                            /\ ~Contains(args[1], <<"=">>)

\* the results received so far that name the variable
ReceivedFor(name) == {i \in DOMAIN env.received : env.received[i].VarName = name}

\* the first of the results of the highest confidence among those received for the name
FirstBest(name) ==
    CHOOSE i \in ReceivedFor(name) :
        \A j \in ReceivedFor(name) :
            \/ env.received[j].Confidence < env.received[i].Confidence
            \/ /\ env.received[j].Confidence = env.received[i].Confidence
               /\ i <= j

\* C26: after the caller's deduplication of the results received, one entry remains
\* for each variable name seen, its confidence is the highest among the results of
\* that name, and of several results of that confidence the first received is kept
C26_DedupKeepsBest ==
    env.phase = "extract" =>
        /\ DOMAIN env.envVars = {env.received[i].VarName : i \in DOMAIN env.received}
        /\ \A name \in DOMAIN env.envVars : env.envVars[name] = env.received[FirstBest(name)]

\* two Compose results of confidence 80 with different values were received for a
\* name, then a .env result of confidence 85, which is the one kept
C26_Witness ==
    /\ env.phase = "extract"
    /\ \E i, j, k \in DOMAIN env.received :
          /\ i < j /\ j < k
          /\ env.received[i].VarName = env.received[k].VarName
          /\ env.received[j].VarName = env.received[k].VarName
          /\ env.received[i].Confidence = 80
          /\ env.received[j].Confidence = 80
          /\ env.received[i].Value # env.received[j].Value
          /\ env.received[k].Confidence = 85
          /\ env.envVars[env.received[k].VarName] = env.received[k]

\* two results of the highest confidence with different values: the first is kept
C26_TieKeepsFirst ==
    /\ env.phase = "extract"
    /\ \E i, j \in DOMAIN env.received :
          /\ i < j
          /\ env.received[i].VarName = env.received[j].VarName
          /\ env.received[i].Confidence = env.received[j].Confidence
          /\ env.received[i].Value # env.received[j].Value
          /\ env.envVars[env.received[i].VarName] = env.received[i]

\* C30: the producer always terminates: when the consumer has stopped receiving it is
\* never left at a send that cannot go on, however many results are undelivered
C30_ProducerNeverBlocked ==
    (env.phase = "extract" /\ env.consumer = "stopped") =>
        ~(env.producer.pc = "send" /\ Len(env.channel.buf) = chanCap)

\* with no more results than the buffer holds the producer gets to its end
FewResultsNeverBlock ==
    (env.phase = "extract" /\ env.fileIdx > 0 /\ env.files[env.fileIdx] # LargeDockerfileFile) =>
        ~(env.producer.pc = "send" /\ Len(env.channel.buf) = chanCap)
====
